---------------------------- MODULE Spec2Model ----------------------------
(***************************************************************************)
(* A model of tools/validate_chaos_pr.py, the pull-request gate of the     *)
(* chaos board.  Text is a sequence of one-character strings, so that      *)
(* find, strip, lower, split and the regular expressions of the source     *)
(* are computed character by character.  A path name is one atomic         *)
(* string.  A violation message is a record: the literal text of the       *)
(* source's message and the value formatted into it.  A character that a  *)
(* TLA+ string cannot hold (one outside ASCII, a control character other   *)
(* than \t \n \r \f, the grave accent) is written "U+" and its code point  *)
(* in decimal: "U+160" is the no-break space and "U+0" the NUL character.  *)
(***************************************************************************)
EXTENDS Integers, Sequences, FiniteSets, TLC

-----------------------------------------------------------------------------
(* Python's str operations, on sequences of characters.                    *)

\* str.isspace, which is also \s of the regular expressions: the ten
\* whitespace characters of ASCII, and the ones outside it
IsSpace(c) ==
    c \in {" ", "\t", "\n", "\r", "\f", "U+11", "U+28", "U+29", "U+30", "U+31",
           "U+133", "U+160", "U+5760", "U+8192", "U+8193", "U+8194", "U+8195",
           "U+8196", "U+8197", "U+8198", "U+8199", "U+8200", "U+8201",
           "U+8202", "U+8232", "U+8233", "U+8239", "U+8287", "U+12288"}

UpperChars == <<"A","B","C","D","E","F","G","H","I","J","K","L","M",
                "N","O","P","Q","R","S","T","U","V","W","X","Y","Z">>

LowerChars == <<"a","b","c","d","e","f","g","h","i","j","k","l","m",
                "n","o","p","q","r","s","t","u","v","w","x","y","z">>

Digits == {"0","1","2","3","4","5","6","7","8","9"}

IsUpper(c) == \E i \in 1..26 : UpperChars[i] = c

IsLetter(c) == \E i \in 1..26 : UpperChars[i] = c \/ LowerChars[i] = c

\* the decimal numeral of n
RECURSIVE Dec(_)
Dec(n) ==
    LET digit(d) == <<"0","1","2","3","4","5","6","7","8","9">>[d + 1]
    IN  IF n < 10 THEN digit(n) ELSE Dec(n \div 10) \o digit(n % 10)

\* the character of a code point that a string cannot hold
NonAscii(n) == "U+" \o Dec(n)

\* chr(num)
chr(num) ==
    LET printable ==
          <<" ","!","\"","#","$","%","&","'","(",")","*","+",",","-",".","/",
            "0","1","2","3","4","5","6","7","8","9",":",";","<","=",">","?",
            "@","A","B","C","D","E","F","G","H","I","J","K","L","M","N","O",
            "P","Q","R","S","T","U","V","W","X","Y","Z","[","\\","]","^","_",
            "U+96","a","b","c","d","e","f","g","h","i","j","k","l","m","n","o",
            "p","q","r","s","t","u","v","w","x","y","z","{","|","}","~">>
    IN  IF num = 9 THEN "\t"
        ELSE IF num = 10 THEN "\n"
        ELSE IF num = 12 THEN "\f"
        ELSE IF num = 13 THEN "\r"
        ELSE IF 32 <= num /\ num <= 126 THEN printable[num - 31]
        ELSE NonAscii(num)

\* the characters of the code points of ranges, a sequence that holds the
\* first and the last code point of one range after the other
CharsOf(ranges) ==
    { chr(n) : n \in UNION { ranges[2 * r - 1]..ranges[2 * r] :
                                r \in 1..(Len(ranges) \div 2) } }

\* the lowercase mapping of the Unicode database (version 14, that of
\* Python 3.11) for the characters that have another character as their
\* lowercase.  The numbers are read four at a time: the code points from
\* the first to the second in steps of the third have their lowercase
\* the fourth further on.  upper is the characters mapped, pairs each of
\* them with its lowercase
UnicodeLower ==
    LET table(runs) ==
            LET mapped(r) == { m \in runs[4 * r - 3]..runs[4 * r - 2] :
                                 (m - runs[4 * r - 3]) % runs[4 * r - 1] = 0 }
                pairs == UNION { { <<chr(n), chr(n + runs[4 * r])>> : n \in mapped(r) } :
                                 r \in 1..(Len(runs) \div 4) }
            IN  [upper |-> { q[1] : q \in pairs }, pairs |-> pairs]
    IN  table(
        << 65, 90, 1, 32, 192, 214, 1, 32, 216, 222, 1, 32, 256, 302, 2, 1,
          306, 310, 2, 1, 313, 327, 2, 1, 330, 374, 2, 1, 376, 376, 1, -121,
          377, 381, 2, 1, 385, 385, 1, 210, 386, 388, 2, 1, 390, 390, 1, 206,
          391, 391, 1, 1, 393, 394, 1, 205, 395, 395, 1, 1, 398, 398, 1, 79,
          399, 399, 1, 202, 400, 400, 1, 203, 401, 401, 1, 1,
          403, 403, 1, 205, 404, 404, 1, 207, 406, 406, 1, 211,
          407, 407, 1, 209, 408, 408, 1, 1, 412, 412, 1, 211,
          413, 413, 1, 213, 415, 415, 1, 214, 416, 420, 2, 1,
          422, 422, 1, 218, 423, 423, 1, 1, 425, 425, 1, 218, 428, 428, 1, 1,
          430, 430, 1, 218, 431, 431, 1, 1, 433, 434, 1, 217, 435, 437, 2, 1,
          439, 439, 1, 219, 440, 440, 1, 1, 444, 444, 1, 1, 452, 452, 1, 2,
          453, 453, 1, 1, 455, 455, 1, 2, 456, 456, 1, 1, 458, 458, 1, 2,
          459, 475, 2, 1, 478, 494, 2, 1, 497, 497, 1, 2, 498, 500, 2, 1,
          502, 502, 1, -97, 503, 503, 1, -56, 504, 542, 2, 1,
          544, 544, 1, -130, 546, 562, 2, 1, 570, 570, 1, 10795,
          571, 571, 1, 1, 573, 573, 1, -163, 574, 574, 1, 10792,
          577, 577, 1, 1, 579, 579, 1, -195, 580, 580, 1, 69, 581, 581, 1, 71,
          582, 590, 2, 1, 880, 882, 2, 1, 886, 886, 1, 1, 895, 895, 1, 116,
          902, 902, 1, 38, 904, 906, 1, 37, 908, 908, 1, 64, 910, 911, 1, 63,
          913, 929, 1, 32, 931, 939, 1, 32, 975, 975, 1, 8, 984, 1006, 2, 1,
          1012, 1012, 1, -60, 1015, 1015, 1, 1, 1017, 1017, 1, -7,
          1018, 1018, 1, 1, 1021, 1023, 1, -130, 1024, 1039, 1, 80,
          1040, 1071, 1, 32, 1120, 1152, 2, 1, 1162, 1214, 2, 1,
          1216, 1216, 1, 15, 1217, 1229, 2, 1, 1232, 1326, 2, 1,
          1329, 1366, 1, 48, 4256, 4293, 1, 7264, 4295, 4295, 1, 7264,
          4301, 4301, 1, 7264, 5024, 5103, 1, 38864, 5104, 5109, 1, 8,
          7312, 7354, 1, -3008, 7357, 7359, 1, -3008, 7680, 7828, 2, 1,
          7838, 7838, 1, -7615, 7840, 7934, 2, 1, 7944, 7951, 1, -8,
          7960, 7965, 1, -8, 7976, 7983, 1, -8, 7992, 7999, 1, -8,
          8008, 8013, 1, -8, 8025, 8031, 2, -8, 8040, 8047, 1, -8,
          8072, 8079, 1, -8, 8088, 8095, 1, -8, 8104, 8111, 1, -8,
          8120, 8121, 1, -8, 8122, 8123, 1, -74, 8124, 8124, 1, -9,
          8136, 8139, 1, -86, 8140, 8140, 1, -9, 8152, 8153, 1, -8,
          8154, 8155, 1, -100, 8168, 8169, 1, -8, 8170, 8171, 1, -112,
          8172, 8172, 1, -7, 8184, 8185, 1, -128, 8186, 8187, 1, -126,
          8188, 8188, 1, -9, 8486, 8486, 1, -7517, 8490, 8490, 1, -8383,
          8491, 8491, 1, -8262, 8498, 8498, 1, 28, 8544, 8559, 1, 16,
          8579, 8579, 1, 1, 9398, 9423, 1, 26, 11264, 11311, 1, 48,
          11360, 11360, 1, 1, 11362, 11362, 1, -10743, 11363, 11363, 1, -3814,
          11364, 11364, 1, -10727, 11367, 11371, 2, 1,
          11373, 11373, 1, -10780, 11374, 11374, 1, -10749,
          11375, 11375, 1, -10783, 11376, 11376, 1, -10782,
          11378, 11378, 1, 1, 11381, 11381, 1, 1, 11390, 11391, 1, -10815,
          11392, 11490, 2, 1, 11499, 11501, 2, 1, 11506, 11506, 1, 1,
          42560, 42604, 2, 1, 42624, 42650, 2, 1, 42786, 42798, 2, 1,
          42802, 42862, 2, 1, 42873, 42875, 2, 1, 42877, 42877, 1, -35332,
          42878, 42886, 2, 1, 42891, 42891, 1, 1, 42893, 42893, 1, -42280,
          42896, 42898, 2, 1, 42902, 42920, 2, 1, 42922, 42922, 1, -42308,
          42923, 42923, 1, -42319, 42924, 42924, 1, -42315,
          42925, 42925, 1, -42305, 42926, 42926, 1, -42308,
          42928, 42928, 1, -42258, 42929, 42929, 1, -42282,
          42930, 42930, 1, -42261, 42931, 42931, 1, 928, 42932, 42946, 2, 1,
          42948, 42948, 1, -48, 42949, 42949, 1, -42307,
          42950, 42950, 1, -35384, 42951, 42953, 2, 1, 42960, 42960, 1, 1,
          42966, 42968, 2, 1, 42997, 42997, 1, 1, 65313, 65338, 1, 32,
          66560, 66599, 1, 40, 66736, 66771, 1, 40, 66928, 66938, 1, 39,
          66940, 66954, 1, 39, 66956, 66962, 1, 39, 66964, 66965, 1, 39,
          68736, 68786, 1, 64, 71840, 71871, 1, 32, 93760, 93791, 1, 32,
          125184, 125217, 1, 34 >>)

\* the characters with the property Cased: the lowercase, the uppercase
\* and the titlecase letters
Cased ==
    CharsOf(
        << 65, 90, 97, 122, 170, 170, 181, 181, 186, 186, 192, 214, 216, 246,
          248, 442, 444, 447, 452, 659, 661, 696, 704, 705, 736, 740,
          837, 837, 880, 883, 886, 887, 890, 893, 895, 895, 902, 902,
          904, 906, 908, 908, 910, 929, 931, 1013, 1015, 1153, 1162, 1327,
          1329, 1366, 1376, 1416, 4256, 4293, 4295, 4295, 4301, 4301,
          4304, 4346, 4349, 4351, 5024, 5109, 5112, 5117, 7296, 7304,
          7312, 7354, 7357, 7359, 7424, 7615, 7680, 7957, 7960, 7965,
          7968, 8005, 8008, 8013, 8016, 8023, 8025, 8025, 8027, 8027,
          8029, 8029, 8031, 8061, 8064, 8116, 8118, 8124, 8126, 8126,
          8130, 8132, 8134, 8140, 8144, 8147, 8150, 8155, 8160, 8172,
          8178, 8180, 8182, 8188, 8305, 8305, 8319, 8319, 8336, 8348,
          8450, 8450, 8455, 8455, 8458, 8467, 8469, 8469, 8473, 8477,
          8484, 8484, 8486, 8486, 8488, 8488, 8490, 8493, 8495, 8500,
          8505, 8505, 8508, 8511, 8517, 8521, 8526, 8526, 8544, 8575,
          8579, 8580, 9398, 9449, 11264, 11492, 11499, 11502, 11506, 11507,
          11520, 11557, 11559, 11559, 11565, 11565, 42560, 42605,
          42624, 42653, 42786, 42887, 42891, 42894, 42896, 42954,
          42960, 42961, 42963, 42963, 42965, 42969, 42997, 42998,
          43000, 43002, 43824, 43866, 43868, 43880, 43888, 43967,
          64256, 64262, 64275, 64279, 65313, 65338, 65345, 65370,
          66560, 66639, 66736, 66771, 66776, 66811, 66928, 66938,
          66940, 66954, 66956, 66962, 66964, 66965, 66967, 66977,
          66979, 66993, 66995, 67001, 67003, 67004, 67456, 67456,
          67459, 67461, 67463, 67504, 67506, 67514, 68736, 68786,
          68800, 68850, 71840, 71903, 93760, 93823, 119808, 119892,
          119894, 119964, 119966, 119967, 119970, 119970, 119973, 119974,
          119977, 119980, 119982, 119993, 119995, 119995, 119997, 120003,
          120005, 120069, 120071, 120074, 120077, 120084, 120086, 120092,
          120094, 120121, 120123, 120126, 120128, 120132, 120134, 120134,
          120138, 120144, 120146, 120485, 120488, 120512, 120514, 120538,
          120540, 120570, 120572, 120596, 120598, 120628, 120630, 120654,
          120656, 120686, 120688, 120712, 120714, 120744, 120746, 120770,
          120772, 120779, 122624, 122633, 122635, 122654, 125184, 125251,
          127280, 127305, 127312, 127337, 127344, 127369 >>)

\* the characters with the property Case_Ignorable
CaseIgnorable ==
    CharsOf(
        << 39, 39, 46, 46, 58, 58, 94, 94, 96, 96, 168, 168, 173, 173,
          175, 175, 180, 180, 183, 184, 688, 879, 884, 885, 890, 890,
          900, 901, 903, 903, 1155, 1161, 1369, 1369, 1375, 1375, 1425, 1469,
          1471, 1471, 1473, 1474, 1476, 1477, 1479, 1479, 1524, 1524,
          1536, 1541, 1552, 1562, 1564, 1564, 1600, 1600, 1611, 1631,
          1648, 1648, 1750, 1757, 1759, 1768, 1770, 1773, 1807, 1807,
          1809, 1809, 1840, 1866, 1958, 1968, 2027, 2037, 2042, 2042,
          2045, 2045, 2070, 2093, 2137, 2139, 2184, 2184, 2192, 2193,
          2200, 2207, 2249, 2306, 2362, 2362, 2364, 2364, 2369, 2376,
          2381, 2381, 2385, 2391, 2402, 2403, 2417, 2417, 2433, 2433,
          2492, 2492, 2497, 2500, 2509, 2509, 2530, 2531, 2558, 2558,
          2561, 2562, 2620, 2620, 2625, 2626, 2631, 2632, 2635, 2637,
          2641, 2641, 2672, 2673, 2677, 2677, 2689, 2690, 2748, 2748,
          2753, 2757, 2759, 2760, 2765, 2765, 2786, 2787, 2810, 2815,
          2817, 2817, 2876, 2876, 2879, 2879, 2881, 2884, 2893, 2893,
          2901, 2902, 2914, 2915, 2946, 2946, 3008, 3008, 3021, 3021,
          3072, 3072, 3076, 3076, 3132, 3132, 3134, 3136, 3142, 3144,
          3146, 3149, 3157, 3158, 3170, 3171, 3201, 3201, 3260, 3260,
          3263, 3263, 3270, 3270, 3276, 3277, 3298, 3299, 3328, 3329,
          3387, 3388, 3393, 3396, 3405, 3405, 3426, 3427, 3457, 3457,
          3530, 3530, 3538, 3540, 3542, 3542, 3633, 3633, 3636, 3642,
          3654, 3662, 3761, 3761, 3764, 3772, 3782, 3782, 3784, 3789,
          3864, 3865, 3893, 3893, 3895, 3895, 3897, 3897, 3953, 3966,
          3968, 3972, 3974, 3975, 3981, 3991, 3993, 4028, 4038, 4038,
          4141, 4144, 4146, 4151, 4153, 4154, 4157, 4158, 4184, 4185,
          4190, 4192, 4209, 4212, 4226, 4226, 4229, 4230, 4237, 4237,
          4253, 4253, 4348, 4348, 4957, 4959, 5906, 5908, 5938, 5939,
          5970, 5971, 6002, 6003, 6068, 6069, 6071, 6077, 6086, 6086,
          6089, 6099, 6103, 6103, 6109, 6109, 6155, 6159, 6211, 6211,
          6277, 6278, 6313, 6313, 6432, 6434, 6439, 6440, 6450, 6450,
          6457, 6459, 6679, 6680, 6683, 6683, 6742, 6742, 6744, 6750,
          6752, 6752, 6754, 6754, 6757, 6764, 6771, 6780, 6783, 6783,
          6823, 6823, 6832, 6862, 6912, 6915, 6964, 6964, 6966, 6970,
          6972, 6972, 6978, 6978, 7019, 7027, 7040, 7041, 7074, 7077,
          7080, 7081, 7083, 7085, 7142, 7142, 7144, 7145, 7149, 7149,
          7151, 7153, 7212, 7219, 7222, 7223, 7288, 7293, 7376, 7378,
          7380, 7392, 7394, 7400, 7405, 7405, 7412, 7412, 7416, 7417,
          7468, 7530, 7544, 7544, 7579, 7679, 8125, 8125, 8127, 8129,
          8141, 8143, 8157, 8159, 8173, 8175, 8189, 8190, 8203, 8207,
          8216, 8217, 8228, 8228, 8231, 8231, 8234, 8238, 8288, 8292,
          8294, 8303, 8305, 8305, 8319, 8319, 8336, 8348, 8400, 8432,
          11388, 11389, 11503, 11505, 11631, 11631, 11647, 11647,
          11744, 11775, 11823, 11823, 12293, 12293, 12330, 12333,
          12337, 12341, 12347, 12347, 12441, 12446, 12540, 12542,
          40981, 40981, 42232, 42237, 42508, 42508, 42607, 42610,
          42612, 42621, 42623, 42623, 42652, 42655, 42736, 42737,
          42752, 42785, 42864, 42864, 42888, 42890, 42994, 42996,
          43000, 43001, 43010, 43010, 43014, 43014, 43019, 43019,
          43045, 43046, 43052, 43052, 43204, 43205, 43232, 43249,
          43263, 43263, 43302, 43309, 43335, 43345, 43392, 43394,
          43443, 43443, 43446, 43449, 43452, 43453, 43471, 43471,
          43493, 43494, 43561, 43566, 43569, 43570, 43573, 43574,
          43587, 43587, 43596, 43596, 43632, 43632, 43644, 43644,
          43696, 43696, 43698, 43700, 43703, 43704, 43710, 43711,
          43713, 43713, 43741, 43741, 43756, 43757, 43763, 43764,
          43766, 43766, 43867, 43871, 43881, 43883, 44005, 44005,
          44008, 44008, 44013, 44013, 64286, 64286, 64434, 64450,
          65024, 65039, 65043, 65043, 65056, 65071, 65106, 65106,
          65109, 65109, 65279, 65279, 65287, 65287, 65294, 65294,
          65306, 65306, 65342, 65342, 65344, 65344, 65392, 65392,
          65438, 65439, 65507, 65507, 65529, 65531, 66045, 66045,
          66272, 66272, 66422, 66426, 67456, 67461, 67463, 67504,
          67506, 67514, 68097, 68099, 68101, 68102, 68108, 68111,
          68152, 68154, 68159, 68159, 68325, 68326, 68900, 68903,
          69291, 69292, 69446, 69456, 69506, 69509, 69633, 69633,
          69688, 69702, 69744, 69744, 69747, 69748, 69759, 69761,
          69811, 69814, 69817, 69818, 69821, 69821, 69826, 69826,
          69837, 69837, 69888, 69890, 69927, 69931, 69933, 69940,
          70003, 70003, 70016, 70017, 70070, 70078, 70089, 70092,
          70095, 70095, 70191, 70193, 70196, 70196, 70198, 70199,
          70206, 70206, 70367, 70367, 70371, 70378, 70400, 70401,
          70459, 70460, 70464, 70464, 70502, 70508, 70512, 70516,
          70712, 70719, 70722, 70724, 70726, 70726, 70750, 70750,
          70835, 70840, 70842, 70842, 70847, 70848, 70850, 70851,
          71090, 71093, 71100, 71101, 71103, 71104, 71132, 71133,
          71219, 71226, 71229, 71229, 71231, 71232, 71339, 71339,
          71341, 71341, 71344, 71349, 71351, 71351, 71453, 71455,
          71458, 71461, 71463, 71467, 71727, 71735, 71737, 71738,
          71995, 71996, 71998, 71998, 72003, 72003, 72148, 72151,
          72154, 72155, 72160, 72160, 72193, 72202, 72243, 72248,
          72251, 72254, 72263, 72263, 72273, 72278, 72281, 72283,
          72330, 72342, 72344, 72345, 72752, 72758, 72760, 72765,
          72767, 72767, 72850, 72871, 72874, 72880, 72882, 72883,
          72885, 72886, 73009, 73014, 73018, 73018, 73020, 73021,
          73023, 73029, 73031, 73031, 73104, 73105, 73109, 73109,
          73111, 73111, 73459, 73460, 78896, 78904, 92912, 92916,
          92976, 92982, 92992, 92995, 94031, 94031, 94095, 94111,
          94176, 94177, 94179, 94180, 110576, 110579, 110581, 110587,
          110589, 110590, 113821, 113822, 113824, 113827, 118528, 118573,
          118576, 118598, 119143, 119145, 119155, 119170, 119173, 119179,
          119210, 119213, 119362, 119364, 121344, 121398, 121403, 121452,
          121461, 121461, 121476, 121476, 121499, 121503, 121505, 121519,
          122880, 122886, 122888, 122904, 122907, 122913, 122915, 122916,
          122918, 122922, 123184, 123197, 123566, 123566, 123628, 123631,
          125136, 125142, 125252, 125259, 127995, 127999, 917505, 917505,
          917536, 917631, 917760, 917999 >>)

\* c.lower() for a one-character string c: the capital I with a dot is the
\* one character that becomes two, an i and a combining dot
LowerChar(c) ==
    LET low(t) ==
            IF IsUpper(c) THEN <<LowerChars[CHOOSE i \in 1..26 : UpperChars[i] = c]>>
            ELSE IF c = "U+304" THEN <<"i", "U+775">>
            ELSE IF c \in t.upper THEN <<(CHOOSE q \in t.pairs : q[1] = c)[2]>>
            ELSE <<c>>
    IN  low(UnicodeLower)

\* s[m-1:n] of Python, with 1-based m: a slice stops at the end of the text
Slice(s, m, n) == SubSeq(s, m, IF n > Len(s) THEN Len(s) ELSE n)

\* the lowercase of the capital sigma at the 1-based i of s: the final
\* sigma when a cased letter comes before it and none after it, the
\* case-ignorable characters in between left out of account, and else the
\* small sigma
handle_capital_sigma(s, i) ==
    LET last(S)  == CHOOSE j \in S : \A k \in S : k <= j
        first(S) == CHOOSE j \in S : \A k \in S : j <= k
        final(before, after, cased) ==
            /\ before # {} /\ s[last(before)] \in cased
            /\ (after = {} \/ s[first(after)] \notin cased)
        sigma(ignorable, cased) ==
            IF final({ j \in 1..(i - 1) : s[j] \notin ignorable },
                     { j \in (i + 1)..Len(s) : s[j] \notin ignorable }, cased)
            THEN "U+962" ELSE "U+963"
    IN  sigma(CaseIgnorable, Cased)

\* str.lower()
Lower(s) ==
    LET join(parts) ==
            LET upto[i \in 0..Len(s)] == IF i = 0 THEN <<>> ELSE upto[i - 1] \o parts[i]
            IN  IF \E i \in 1..Len(s) : s[i] = "U+304"
                THEN upto[Len(s)]
                ELSE [i \in 1..Len(s) |-> parts[i][1]]
    IN  join([i \in 1..Len(s) |-> IF s[i] = "U+931"
                                    THEN <<handle_capital_sigma(s, i)>>
                                    ELSE LowerChar(s[i])])

\* s[i:] with a 0-based i
From(s, i) == Slice(s, i + 1, Len(s))

\* s[:i] with a 0-based i
UpTo(s, i) == Slice(s, 1, i)

\* str.startswith(p)
StartsWith(s, p) == Len(p) <= Len(s) /\ Slice(s, 1, Len(p)) = p

\* str.find(needle, from): the lowest 0-based offset >= from, or -1
FindFrom(s, needle, i) ==
    LET hits == { j \in i..(Len(s) - Len(needle)) :
                     Slice(s, j + 1, j + Len(needle)) = needle }
    IN  IF hits = {} THEN -1
        ELSE CHOOSE j \in hits : \A k \in hits : j <= k

\* str.find(needle)
Find(s, needle) == FindFrom(s, needle, 0)

RECURSIVE LStrip(_)
LStrip(s) == IF s # <<>> /\ IsSpace(Head(s)) THEN LStrip(Tail(s)) ELSE s

RECURSIVE RStrip(_)
RStrip(s) == IF s # <<>> /\ IsSpace(s[Len(s)])
             THEN RStrip(Slice(s, 1, Len(s) - 1)) ELSE s

\* str.strip()
Strip(s) == RStrip(LStrip(s))

\* str.split(sep) for a one-character separator: always at least one part
RECURSIVE SplitAcc(_, _, _, _)
SplitAcc(s, sep, i, cur) ==
    IF i > Len(s) THEN <<cur>>
    ELSE IF s[i] = sep THEN <<cur>> \o SplitAcc(s, sep, i + 1, <<>>)
    ELSE SplitAcc(s, sep, i + 1, Append(cur, s[i]))

SplitChar(s, sep) == SplitAcc(s, sep, 1, <<>>)

\* str.split() with no argument: the maximal runs of non-whitespace
RECURSIVE SplitWsAcc(_, _, _)
SplitWsAcc(s, i, cur) ==
    IF i > Len(s) THEN (IF cur = <<>> THEN <<>> ELSE <<cur>>)
    ELSE IF IsSpace(s[i])
         THEN (IF cur = <<>> THEN <<>> ELSE <<cur>>) \o SplitWsAcc(s, i + 1, <<>>)
    ELSE SplitWsAcc(s, i + 1, Append(cur, s[i]))

SplitWs(s) == SplitWsAcc(s, 1, <<>>)

\* sep.join(parts), on texts
RECURSIVE JoinText(_, _)
JoinText(sep, parts) ==
    IF parts = <<>> THEN <<>>
    ELSE IF Len(parts) = 1 THEN parts[1]
    ELSE parts[1] \o sep \o JoinText(sep, Tail(parts))

\* ", ".join(names), on path names: the names with the separator between them
RECURSIVE JoinNames(_)
JoinNames(names) ==
    IF names = <<>> THEN <<>>
    ELSE IF Len(names) = 1 THEN <<names[1]>>
    ELSE <<names[1], ", ">> \o JoinNames(Tail(names))

Range(s) == {s[i] : i \in 1..Len(s)}

-----------------------------------------------------------------------------
(* The constants of the file format.                                       *)

INDEX_HTML == "chaos-board/index.html"

CHAOS_CSS == "chaos-board/assets/chaos.css"

ALLOWED_CHANGED_FILES == {INDEX_HTML, CHAOS_CSS}

CHAOS_START == <<"<","!","-","-"," ","C","H","A","O","S","_",
                 "S","T","A","R","T"," ","-","-",">">>

CHAOS_END == <<"<","!","-","-"," ","C","H","A","O","S","_",
               "E","N","D"," ","-","-",">">>

-----------------------------------------------------------------------------
(* The literals the scanner and the CSS checker compare against.           *)

T_on == <<"o","n">>

T_a == <<"a">>

T_img == <<"i","m","g">>

T_href == <<"h","r","e","f">>

T_target == <<"t","a","r","g","e","t">>

T_rel == <<"r","e","l">>

T_src == <<"s","r","c">>

T_alt == <<"a","l","t">>

T_javascript == <<"j","a","v","a","s","c","r","i","p","t",":">>

T_http == <<"h","t","t","p",":","/","/">>

T_https == <<"h","t","t","p","s",":","/","/">>

T_hash == <<"#">>

T_blank == <<"_","b","l","a","n","k">>

T_nofollow == <<"n","o","f","o","l","l","o","w">>

T_noopener == <<"n","o","o","p","e","n","e","r">>

T_noreferrer == <<"n","o","r","e","f","e","r","r","e","r">>

T_chaos_region_class == <<".","c","h","a","o","s","-","r","e","g","i","o","n">>

T_chaos_region == <<"c","h","a","o","s","-","r","e","g","i","o","n">>

T_star == <<"*">>

T_html == <<"h","t","m","l">>

T_body == <<"b","o","d","y">>

T_at == <<"@">>

-----------------------------------------------------------------------------
(* split_chaos_region: the result is the triple, or the ValueError.        *)

\* the slip of cutting the region from the marker's first character
split_region_from_marker(html) ==
    LET start == Find(html, CHAOS_START)
        end   == Find(html, CHAOS_END)
    IN  IF start = -1 \/ end = -1 \/ end <= start
        THEN [raised |-> TRUE, before |-> <<>>, region |-> <<>>, after |-> <<>>]
        ELSE [raised |-> FALSE,
              before |-> UpTo(html, start + Len(CHAOS_START)),
              region |-> Slice(html, start + 1, end),
              after  |-> From(html, end)]

split_chaos_region(html) ==
    LET start == Find(html, CHAOS_START)
        end   == Find(html, CHAOS_END)
    IN  IF start = -1 \/ end = -1 \/ end <= start
        THEN [raised |-> TRUE, before |-> <<>>, region |-> <<>>, after |-> <<>>]
        ELSE [raised |-> FALSE,
              before |-> UpTo(html, start + Len(CHAOS_START)),
              region |-> Slice(html, start + Len(CHAOS_START) + 1, end),
              after  |-> From(html, end)]

-----------------------------------------------------------------------------
(* ChaosHTMLSafetyParser.handle_starttag.  An attribute is a record: its   *)
(* name, whether it has a value (HTMLParser gives None for a valueless     *)
(* attribute) and the value.                                               *)

Msg(text, arg) == [text |-> text, arg |-> arg]

M_handler == "Inline event handler attribute not allowed: "

M_javascript == "Links must not use javascript: URLs"

M_scheme == "Links must be http(s) or fragment only: href="

M_target == "External links must include target=\"_blank\""

M_rel == "External links must include rel=\"nofollow noopener noreferrer\""

M_img_src == "Images must use https:// sources"

M_img_alt == "Images must include non-empty alt attribute"

\* v or ""
ValueOrEmpty(at) == IF at.hasValue THEN at.v ELSE <<>>

\* the keys of attr_map, in insertion order: a repeated name keeps its first place
RECURSIVE AttrKeys(_, _)
AttrKeys(attrs, seen) ==
    IF attrs = <<>> THEN <<>>
    ELSE LET k == Lower(Head(attrs).k)
         IN  IF k \in seen THEN AttrKeys(Tail(attrs), seen)
             ELSE <<k>> \o AttrKeys(Tail(attrs), seen \cup {k})

\* key in attr_map
AttrHas(attrs, key) == \E i \in 1..Len(attrs) : Lower(attrs[i].k) = key

\* attr_map[key]: of a repeated name the dict keeps the last value
AttrValue(attrs, key) ==
    LET last == CHOOSE i \in 1..Len(attrs) :
                   /\ Lower(attrs[i].k) = key
                   /\ \A j \in (i + 1)..Len(attrs) : Lower(attrs[j].k) # key
    IN  ValueOrEmpty(attrs[last])

\* attr_map.get(key, "")
AttrGet(attrs, key) == IF AttrHas(attrs, key) THEN AttrValue(attrs, key) ELSE <<>>

\* the loop over attr_map.keys()
RECURSIVE HandlerErrors(_, _)
HandlerErrors(tag, keys) ==
    IF keys = <<>> THEN <<>>
    ELSE (IF StartsWith(Head(keys), T_on)
          THEN <<Msg(M_handler, <<tag, Head(keys)>>)>> ELSE <<>>)
         \o HandlerErrors(tag, Tail(keys))

\* the slip of testing the scheme of the untrimmed value
IsExternalUntrimmed(href) ==
    StartsWith(Lower(href), T_http) \/ StartsWith(Lower(href), T_https)

\* href.strip().lower().startswith(("http://", "https://"))
IsExternal(href) ==
    LET href_l == Lower(Strip(href))
    IN  StartsWith(href_l, T_http) \/ StartsWith(href_l, T_https)

\* the block under "if href:"
HrefErrors(href) ==
    IF href = <<>> THEN <<>>
    ELSE LET href_l == Lower(Strip(href))
         IN  (IF StartsWith(href_l, T_javascript)
              THEN <<Msg(M_javascript, <<>>)>> ELSE <<>>)
             \o
             (IF ~(StartsWith(href_l, T_http) \/ StartsWith(href_l, T_https)
                   \/ StartsWith(href_l, T_hash))
              THEN <<Msg(M_scheme, href)>> ELSE <<>>)

\* the tokens of rel: " ".join(rel.split()).lower(), then split again
RelPresent(attrs) ==
    LET rel == Lower(JoinText(<<" ">>, SplitWs(AttrGet(attrs, T_rel))))
    IN  Range(SplitWs(rel))

\* the block under "if href.strip().lower().startswith(...)"
ExternalErrors(attrs) ==
    (IF ~(AttrHas(attrs, T_target) /\ AttrValue(attrs, T_target) = T_blank)
     THEN <<Msg(M_target, <<>>)>> ELSE <<>>)
    \o
    (IF ~({T_nofollow, T_noopener, T_noreferrer} \subseteq RelPresent(attrs))
     THEN <<Msg(M_rel, <<>>)>> ELSE <<>>)

AnchorErrors(attrs) ==
    LET href == AttrGet(attrs, T_href)
    IN  HrefErrors(href)
        \o (IF IsExternal(href) THEN ExternalErrors(attrs) ELSE <<>>)

ImgErrors(attrs) ==
    LET src == AttrGet(attrs, T_src)
    IN  (IF src # <<>> /\ ~StartsWith(Lower(Strip(src)), T_https)
         THEN <<Msg(M_img_src, <<>>)>> ELSE <<>>)
        \o
        (IF ~AttrHas(attrs, T_alt) \/ AttrGet(attrs, T_alt) = <<>>
         THEN <<Msg(M_img_alt, <<>>)>> ELSE <<>>)

\* what one call appends to self.errors
handle_starttag(tag, attrs) ==
    HandlerErrors(tag, AttrKeys(attrs, {}))
    \o (IF Lower(tag) = T_a THEN AnchorErrors(attrs) ELSE <<>>)
    \o (IF Lower(tag) = T_img THEN ImgErrors(attrs) ELSE <<>>)

-----------------------------------------------------------------------------
(* validate_css_scoping.                                                   *)

M_prefix == "All selectors must start with .chaos-region: "

M_bare == "Bare element selector not allowed in chaos.css: "

\* re.sub(r"/\*.*?\*/", "", css, flags=re.DOTALL): from each "/*" to the
\* nearest "*/" that starts at least two characters later; i is 0-based
RECURSIVE StripCommentsFrom(_, _)
StripCommentsFrom(s, i) ==
    IF i >= Len(s) THEN <<>>
    ELSE IF Slice(s, i + 1, i + 2) = <<"/", "*">>
              /\ FindFrom(s, <<"*", "/">>, i + 2) # -1
         THEN StripCommentsFrom(s, FindFrom(s, <<"*", "/">>, i + 2) + 2)
         ELSE <<s[i + 1]>> \o StripCommentsFrom(s, i + 1)

StripComments(css) == StripCommentsFrom(css, 0)

\* where ([^q\\]|\\.)* followed by q ends, scanning from the 0-based j: the
\* offset of the closing quote, or -1 ("." matches no line break)
RECURSIVE StringEnd(_, _, _)
StringEnd(s, j, q) ==
    IF j >= Len(s) THEN -1
    ELSE IF s[j + 1] = q THEN j
    ELSE IF s[j + 1] = "\\"
         THEN (IF j + 1 < Len(s) /\ s[j + 2] # "\n"
               THEN StringEnd(s, j + 2, q) ELSE -1)
    ELSE StringEnd(s, j + 1, q)

\* re.sub of a quoted string by the empty string of that quote
RECURSIVE StripStringsFrom(_, _, _)
StripStringsFrom(s, i, q) ==
    IF i >= Len(s) THEN <<>>
    ELSE IF s[i + 1] = q /\ StringEnd(s, i + 1, q) # -1
         THEN <<q, q>> \o StripStringsFrom(s, StringEnd(s, i + 1, q) + 1, q)
         ELSE <<s[i + 1]>> \o StripStringsFrom(s, i + 1, q)

StripStrings(css, q) == StripStringsFrom(css, 0, q)

\* lines 111-115: comments first, then '...' strings, then "..." strings
Preprocess(css) == StripStrings(StripStrings(StripComments(css), "'"), "\"")

IsCombinator(c) == c \in {">", "+", "~"}

\* the end of a run of whitespace starting at the 1-based i
RECURSIVE SkipWs(_, _)
SkipWs(s, i) == IF i <= Len(s) /\ IsSpace(s[i]) THEN SkipWs(s, i + 1) ELSE i

\* re.split(r"\s+|>\s*|\+\s*|~\s*", sel): the pieces between the matches,
\* the empty ones included
RECURSIVE ReSplitAcc(_, _, _)
ReSplitAcc(s, i, cur) ==
    IF i > Len(s) THEN <<cur>>
    ELSE IF IsSpace(s[i]) THEN <<cur>> \o ReSplitAcc(s, SkipWs(s, i), <<>>)
    ELSE IF IsCombinator(s[i]) THEN <<cur>> \o ReSplitAcc(s, SkipWs(s, i + 1), <<>>)
    ELSE ReSplitAcc(s, i + 1, Append(cur, s[i]))

SelectorTokens(sel) == ReSplitAcc(sel, 1, <<>>)

\* the slip of leaving "*" out of the set
IsRootTokenNoStar(t) == t \in {T_html, T_body}

\* t in {"*", "html", "body"}
IsRootToken(t) == t \in {T_star, T_html, T_body}

IsIdentChar(c) == IsLetter(c) \/ c \in Digits \/ c = "-"

\* re.match(r"^[a-zA-Z][a-zA-Z0-9-]*", t).group(0), or the empty text when
\* there is no match
RECURSIVE IdentRun(_, _)
IdentRun(t, i) ==
    IF i <= Len(t) /\ IsIdentChar(t[i]) THEN <<t[i]>> \o IdentRun(t, i + 1) ELSE <<>>

LeadingIdent(t) == IF t # <<>> /\ IsLetter(t[1]) THEN IdentRun(t, 1) ELSE <<>>

\* lines 147-150: a token that is an element name, and not chaos-region
IsBareTag(t) ==
    /\ LeadingIdent(t) # <<>>
    /\ ~(t[1] \in {".", "#", ":", "["})
    /\ LeadingIdent(t) # T_chaos_region

\* the loop over tokens: the first offending token ends it
RECURSIVE TokenErrors(_, _)
TokenErrors(sel, tokens) ==
    IF tokens = <<>> THEN <<>>
    ELSE LET t == Strip(Head(tokens))
         IN  IF t = <<>> THEN TokenErrors(sel, Tail(tokens))
             ELSE IF IsRootToken(t) THEN <<Msg(M_bare, sel)>>
             ELSE IF IsBareTag(t) THEN <<Msg(M_bare, sel)>>
             ELSE TokenErrors(sel, Tail(tokens))

\* the body of "for sel in selectors"
SelectorErrors(sel) ==
    IF ~StartsWith(sel, T_chaos_region_class)
    THEN <<Msg(M_prefix, sel)>>
    ELSE TokenErrors(sel, SelectorTokens(sel))

\* [s.strip() for s in selector_part.split(",") if s.strip()]
RECURSIVE StripNonEmpty(_)
StripNonEmpty(parts) ==
    IF parts = <<>> THEN <<>>
    ELSE (IF Strip(Head(parts)) # <<>> THEN <<Strip(Head(parts))>> ELSE <<>>)
         \o StripNonEmpty(Tail(parts))

\* block.split("}")[-1].strip()
SelectorPart(block) ==
    LET parts == SplitChar(block, "}") IN Strip(parts[Len(parts)])

\* the selectors the checker looks at in one block: none for an empty
\* selector part or one that starts with "@"
BlockSelectors(block) ==
    LET selector_part == SelectorPart(block)
    IN  IF selector_part = <<>> THEN <<>>
        ELSE IF StartsWith(LStrip(selector_part), T_at) THEN <<>>
        ELSE StripNonEmpty(SplitChar(selector_part, ","))

\* css.split("{")[:-1]
Blocks(css) ==
    LET parts == SplitChar(css, "{") IN Slice(parts, 1, Len(parts) - 1)

\* every selector the checker looks at, in order
RECURSIVE CheckedSelectorsOf(_)
CheckedSelectorsOf(blocks) ==
    IF blocks = <<>> THEN <<>>
    ELSE BlockSelectors(Head(blocks)) \o CheckedSelectorsOf(Tail(blocks))

CheckedSelectors(css) == CheckedSelectorsOf(Blocks(Preprocess(css)))

RECURSIVE SelectorsErrors(_)
SelectorsErrors(sels) ==
    IF sels = <<>> THEN <<>>
    ELSE SelectorErrors(Head(sels)) \o SelectorsErrors(Tail(sels))

validate_css_scoping(css) == SelectorsErrors(CheckedSelectors(css))

-----------------------------------------------------------------------------
(* html.unescape, which HTMLParser applies to the value of an attribute    *)
(* and to the text between tags.                                           *)

\* the value of a digit of [0-9a-fA-F], and -1 for another character
DigitValue(c) ==
    LET value(lower, upper) ==
            IF \E v \in 1..16 : lower[v] = c \/ upper[v] = c
            THEN (CHOOSE v \in 1..16 : lower[v] = c \/ upper[v] = c) - 1
            ELSE -1
    IN  value(<<"0","1","2","3","4","5","6","7","8","9","a","b","c","d","e","f">>,
              <<"0","1","2","3","4","5","6","7","8","9","A","B","C","D","E","F">>)

\* rawdata[i:i+1] with a 0-based i: the empty string outside the text
CharAt(s, i) == IF i >= 0 /\ i < Len(s) THEN s[i + 1] ELSE ""

\* s[a:b] of Python, with 0-based a and b
Cut(s, a, b) == Slice(s, a + 1, b)

Lowest(S) == CHOOSE x \in S : \A y \in S : x <= y

\* where a run of offsets that satisfy In ends, from the 0-based i
RunTo(s, i, In(_)) ==
    IF \E j \in i..(Len(s) - 1) : ~In(j)
    THEN CHOOSE j \in i..(Len(s) - 1) : ~In(j) /\ \A k \in i..(j - 1) : In(k)
    ELSE IF i > Len(s) THEN i ELSE Len(s)

\* sys.int_max_str_digits: the most digits of a decimal numeral int() converts
int_max_str_digits == 4300

\* int(ds, base) for digits of the base: -1 for the ValueError of a decimal
\* numeral of more than int_max_str_digits digits, leading zeros counted,
\* and else the number, counted no further than 0x110000, one more than the
\* largest code point: every larger number is replaced alike
int(ds, base) ==
    LET z   == RunTo(ds, 0, LAMBDA j : ds[j + 1] = "0")
        sig == Cut(ds, z, Len(ds))
        val[k \in 0..Len(sig)] ==
            IF k = 0 THEN 0 ELSE val[k - 1] * base + DigitValue(sig[k])
    IN  IF base = 10 /\ Len(ds) > int_max_str_digits THEN -1
        ELSE IF Len(sig) > 7 \/ val[Len(sig)] > 1114112 THEN 1114112
        ELSE val[Len(sig)]

\* _replace_charref for a numeric reference; invalid_charrefs is
\* _invalid_charrefs for 0x80 to 0x9f, the code points they are replaced by
NumericCharref(num) ==
    LET invalid_charrefs ==
          <<8364, 129, 8218, 402, 8222, 8230, 8224, 8225, 710, 8240, 352, 8249,
            338, 141, 381, 143, 144, 8216, 8217, 8220, 8221, 8226, 8211, 8212,
            732, 8482, 353, 8250, 339, 157, 382, 376>>
        invalid_codepoints ==
          (1..8) \cup (14..31) \cup (127..159) \cup (64976..65007) \cup {11}
          \cup { q * 65536 + 65534 : q \in 0..16 } \cup { q * 65536 + 65535 : q \in 0..16 }
    IN  IF num = 0 THEN <<NonAscii(65533)>>
        ELSE IF num = 13 THEN <<"\r">>
        ELSE IF 128 <= num /\ num <= 159 THEN <<NonAscii(invalid_charrefs[num - 127])>>
        ELSE IF (55296 <= num /\ num <= 57343) \/ num > 1114111 THEN <<NonAscii(65533)>>
        ELSE IF num \in invalid_codepoints THEN <<>>
        ELSE <<chr(num)>>

\* the characters of a text as one string
RECURSIVE Str(_)
Str(s) == IF s = <<>> THEN "" ELSE Head(s) \o Str(Tail(s))

\* html.entities.html5: the name, and the characters it stands for
html5 ==
    { <<"AElig", <<"U+198">> >>, <<"AElig;", <<"U+198">> >>,
      <<"AMP", <<"&">> >>, <<"AMP;", <<"&">> >>, <<"Aacute", <<"U+193">> >>,
      <<"Aacute;", <<"U+193">> >>, <<"Abreve;", <<"U+258">> >>,
      <<"Acirc", <<"U+194">> >>, <<"Acirc;", <<"U+194">> >>,
      <<"Acy;", <<"U+1040">> >>, <<"Afr;", <<"U+120068">> >>,
      <<"Agrave", <<"U+192">> >>, <<"Agrave;", <<"U+192">> >>,
      <<"Alpha;", <<"U+913">> >>, <<"Amacr;", <<"U+256">> >>,
      <<"And;", <<"U+10835">> >>, <<"Aogon;", <<"U+260">> >>,
      <<"Aopf;", <<"U+120120">> >>, <<"ApplyFunction;", <<"U+8289">> >>,
      <<"Aring", <<"U+197">> >>, <<"Aring;", <<"U+197">> >>,
      <<"Ascr;", <<"U+119964">> >>, <<"Assign;", <<"U+8788">> >>,
      <<"Atilde", <<"U+195">> >>, <<"Atilde;", <<"U+195">> >>,
      <<"Auml", <<"U+196">> >>, <<"Auml;", <<"U+196">> >>,
      <<"Backslash;", <<"U+8726">> >>, <<"Barv;", <<"U+10983">> >>,
      <<"Barwed;", <<"U+8966">> >>, <<"Bcy;", <<"U+1041">> >>,
      <<"Because;", <<"U+8757">> >>, <<"Bernoullis;", <<"U+8492">> >>,
      <<"Beta;", <<"U+914">> >>, <<"Bfr;", <<"U+120069">> >>,
      <<"Bopf;", <<"U+120121">> >>, <<"Breve;", <<"U+728">> >>,
      <<"Bscr;", <<"U+8492">> >>, <<"Bumpeq;", <<"U+8782">> >>,
      <<"CHcy;", <<"U+1063">> >>, <<"COPY", <<"U+169">> >>,
      <<"COPY;", <<"U+169">> >>, <<"Cacute;", <<"U+262">> >>,
      <<"Cap;", <<"U+8914">> >>, <<"CapitalDifferentialD;", <<"U+8517">> >>,
      <<"Cayleys;", <<"U+8493">> >>, <<"Ccaron;", <<"U+268">> >>,
      <<"Ccedil", <<"U+199">> >>, <<"Ccedil;", <<"U+199">> >>,
      <<"Ccirc;", <<"U+264">> >>, <<"Cconint;", <<"U+8752">> >>,
      <<"Cdot;", <<"U+266">> >>, <<"Cedilla;", <<"U+184">> >>,
      <<"CenterDot;", <<"U+183">> >>, <<"Cfr;", <<"U+8493">> >>,
      <<"Chi;", <<"U+935">> >>, <<"CircleDot;", <<"U+8857">> >>,
      <<"CircleMinus;", <<"U+8854">> >>, <<"CirclePlus;", <<"U+8853">> >>,
      <<"CircleTimes;", <<"U+8855">> >>,
      <<"ClockwiseContourIntegral;", <<"U+8754">> >>,
      <<"CloseCurlyDoubleQuote;", <<"U+8221">> >>,
      <<"CloseCurlyQuote;", <<"U+8217">> >>, <<"Colon;", <<"U+8759">> >>,
      <<"Colone;", <<"U+10868">> >>, <<"Congruent;", <<"U+8801">> >>,
      <<"Conint;", <<"U+8751">> >>, <<"ContourIntegral;", <<"U+8750">> >>,
      <<"Copf;", <<"U+8450">> >>, <<"Coproduct;", <<"U+8720">> >>,
      <<"CounterClockwiseContourIntegral;", <<"U+8755">> >>,
      <<"Cross;", <<"U+10799">> >>, <<"Cscr;", <<"U+119966">> >>,
      <<"Cup;", <<"U+8915">> >>, <<"CupCap;", <<"U+8781">> >>,
      <<"DD;", <<"U+8517">> >>, <<"DDotrahd;", <<"U+10513">> >>,
      <<"DJcy;", <<"U+1026">> >>, <<"DScy;", <<"U+1029">> >>,
      <<"DZcy;", <<"U+1039">> >>, <<"Dagger;", <<"U+8225">> >>,
      <<"Darr;", <<"U+8609">> >>, <<"Dashv;", <<"U+10980">> >>,
      <<"Dcaron;", <<"U+270">> >>, <<"Dcy;", <<"U+1044">> >>,
      <<"Del;", <<"U+8711">> >>, <<"Delta;", <<"U+916">> >>,
      <<"Dfr;", <<"U+120071">> >>, <<"DiacriticalAcute;", <<"U+180">> >>,
      <<"DiacriticalDot;", <<"U+729">> >>,
      <<"DiacriticalDoubleAcute;", <<"U+733">> >>,
      <<"DiacriticalGrave;", <<"U+96">> >>,
      <<"DiacriticalTilde;", <<"U+732">> >>, <<"Diamond;", <<"U+8900">> >>,
      <<"DifferentialD;", <<"U+8518">> >>, <<"Dopf;", <<"U+120123">> >>,
      <<"Dot;", <<"U+168">> >>, <<"DotDot;", <<"U+8412">> >>,
      <<"DotEqual;", <<"U+8784">> >>,
      <<"DoubleContourIntegral;", <<"U+8751">> >>,
      <<"DoubleDot;", <<"U+168">> >>, <<"DoubleDownArrow;", <<"U+8659">> >>,
      <<"DoubleLeftArrow;", <<"U+8656">> >>,
      <<"DoubleLeftRightArrow;", <<"U+8660">> >>,
      <<"DoubleLeftTee;", <<"U+10980">> >>,
      <<"DoubleLongLeftArrow;", <<"U+10232">> >>,
      <<"DoubleLongLeftRightArrow;", <<"U+10234">> >>,
      <<"DoubleLongRightArrow;", <<"U+10233">> >>,
      <<"DoubleRightArrow;", <<"U+8658">> >>,
      <<"DoubleRightTee;", <<"U+8872">> >>,
      <<"DoubleUpArrow;", <<"U+8657">> >>,
      <<"DoubleUpDownArrow;", <<"U+8661">> >>,
      <<"DoubleVerticalBar;", <<"U+8741">> >>,
      <<"DownArrow;", <<"U+8595">> >>, <<"DownArrowBar;", <<"U+10515">> >>,
      <<"DownArrowUpArrow;", <<"U+8693">> >>, <<"DownBreve;", <<"U+785">> >>,
      <<"DownLeftRightVector;", <<"U+10576">> >>,
      <<"DownLeftTeeVector;", <<"U+10590">> >>,
      <<"DownLeftVector;", <<"U+8637">> >>,
      <<"DownLeftVectorBar;", <<"U+10582">> >>,
      <<"DownRightTeeVector;", <<"U+10591">> >>,
      <<"DownRightVector;", <<"U+8641">> >>,
      <<"DownRightVectorBar;", <<"U+10583">> >>,
      <<"DownTee;", <<"U+8868">> >>, <<"DownTeeArrow;", <<"U+8615">> >>,
      <<"Downarrow;", <<"U+8659">> >>, <<"Dscr;", <<"U+119967">> >>,
      <<"Dstrok;", <<"U+272">> >>, <<"ENG;", <<"U+330">> >>,
      <<"ETH", <<"U+208">> >>, <<"ETH;", <<"U+208">> >>,
      <<"Eacute", <<"U+201">> >>, <<"Eacute;", <<"U+201">> >>,
      <<"Ecaron;", <<"U+282">> >>, <<"Ecirc", <<"U+202">> >>,
      <<"Ecirc;", <<"U+202">> >>, <<"Ecy;", <<"U+1069">> >>,
      <<"Edot;", <<"U+278">> >>, <<"Efr;", <<"U+120072">> >>,
      <<"Egrave", <<"U+200">> >>, <<"Egrave;", <<"U+200">> >>,
      <<"Element;", <<"U+8712">> >>, <<"Emacr;", <<"U+274">> >>,
      <<"EmptySmallSquare;", <<"U+9723">> >>,
      <<"EmptyVerySmallSquare;", <<"U+9643">> >>, <<"Eogon;", <<"U+280">> >>,
      <<"Eopf;", <<"U+120124">> >>, <<"Epsilon;", <<"U+917">> >>,
      <<"Equal;", <<"U+10869">> >>, <<"EqualTilde;", <<"U+8770">> >>,
      <<"Equilibrium;", <<"U+8652">> >>, <<"Escr;", <<"U+8496">> >>,
      <<"Esim;", <<"U+10867">> >>, <<"Eta;", <<"U+919">> >>,
      <<"Euml", <<"U+203">> >>, <<"Euml;", <<"U+203">> >>,
      <<"Exists;", <<"U+8707">> >>, <<"ExponentialE;", <<"U+8519">> >>,
      <<"Fcy;", <<"U+1060">> >>, <<"Ffr;", <<"U+120073">> >>,
      <<"FilledSmallSquare;", <<"U+9724">> >>,
      <<"FilledVerySmallSquare;", <<"U+9642">> >>,
      <<"Fopf;", <<"U+120125">> >>, <<"ForAll;", <<"U+8704">> >>,
      <<"Fouriertrf;", <<"U+8497">> >>, <<"Fscr;", <<"U+8497">> >>,
      <<"GJcy;", <<"U+1027">> >>, <<"GT", <<">">> >>, <<"GT;", <<">">> >>,
      <<"Gamma;", <<"U+915">> >>, <<"Gammad;", <<"U+988">> >>,
      <<"Gbreve;", <<"U+286">> >>, <<"Gcedil;", <<"U+290">> >>,
      <<"Gcirc;", <<"U+284">> >>, <<"Gcy;", <<"U+1043">> >>,
      <<"Gdot;", <<"U+288">> >>, <<"Gfr;", <<"U+120074">> >>,
      <<"Gg;", <<"U+8921">> >>, <<"Gopf;", <<"U+120126">> >>,
      <<"GreaterEqual;", <<"U+8805">> >>,
      <<"GreaterEqualLess;", <<"U+8923">> >>,
      <<"GreaterFullEqual;", <<"U+8807">> >>,
      <<"GreaterGreater;", <<"U+10914">> >>,
      <<"GreaterLess;", <<"U+8823">> >>,
      <<"GreaterSlantEqual;", <<"U+10878">> >>,
      <<"GreaterTilde;", <<"U+8819">> >>, <<"Gscr;", <<"U+119970">> >>,
      <<"Gt;", <<"U+8811">> >>, <<"HARDcy;", <<"U+1066">> >>,
      <<"Hacek;", <<"U+711">> >>, <<"Hat;", <<"^">> >>,
      <<"Hcirc;", <<"U+292">> >>, <<"Hfr;", <<"U+8460">> >>,
      <<"HilbertSpace;", <<"U+8459">> >>, <<"Hopf;", <<"U+8461">> >>,
      <<"HorizontalLine;", <<"U+9472">> >>, <<"Hscr;", <<"U+8459">> >>,
      <<"Hstrok;", <<"U+294">> >>, <<"HumpDownHump;", <<"U+8782">> >>,
      <<"HumpEqual;", <<"U+8783">> >>, <<"IEcy;", <<"U+1045">> >>,
      <<"IJlig;", <<"U+306">> >>, <<"IOcy;", <<"U+1025">> >>,
      <<"Iacute", <<"U+205">> >>, <<"Iacute;", <<"U+205">> >>,
      <<"Icirc", <<"U+206">> >>, <<"Icirc;", <<"U+206">> >>,
      <<"Icy;", <<"U+1048">> >>, <<"Idot;", <<"U+304">> >>,
      <<"Ifr;", <<"U+8465">> >>, <<"Igrave", <<"U+204">> >>,
      <<"Igrave;", <<"U+204">> >>, <<"Im;", <<"U+8465">> >>,
      <<"Imacr;", <<"U+298">> >>, <<"ImaginaryI;", <<"U+8520">> >>,
      <<"Implies;", <<"U+8658">> >>, <<"Int;", <<"U+8748">> >>,
      <<"Integral;", <<"U+8747">> >>, <<"Intersection;", <<"U+8898">> >>,
      <<"InvisibleComma;", <<"U+8291">> >>,
      <<"InvisibleTimes;", <<"U+8290">> >>, <<"Iogon;", <<"U+302">> >>,
      <<"Iopf;", <<"U+120128">> >>, <<"Iota;", <<"U+921">> >>,
      <<"Iscr;", <<"U+8464">> >>, <<"Itilde;", <<"U+296">> >>,
      <<"Iukcy;", <<"U+1030">> >>, <<"Iuml", <<"U+207">> >>,
      <<"Iuml;", <<"U+207">> >>, <<"Jcirc;", <<"U+308">> >>,
      <<"Jcy;", <<"U+1049">> >>, <<"Jfr;", <<"U+120077">> >>,
      <<"Jopf;", <<"U+120129">> >>, <<"Jscr;", <<"U+119973">> >>,
      <<"Jsercy;", <<"U+1032">> >>, <<"Jukcy;", <<"U+1028">> >>,
      <<"KHcy;", <<"U+1061">> >>, <<"KJcy;", <<"U+1036">> >>,
      <<"Kappa;", <<"U+922">> >>, <<"Kcedil;", <<"U+310">> >>,
      <<"Kcy;", <<"U+1050">> >>, <<"Kfr;", <<"U+120078">> >>,
      <<"Kopf;", <<"U+120130">> >>, <<"Kscr;", <<"U+119974">> >>,
      <<"LJcy;", <<"U+1033">> >>, <<"LT", <<"<">> >>, <<"LT;", <<"<">> >>,
      <<"Lacute;", <<"U+313">> >>, <<"Lambda;", <<"U+923">> >>,
      <<"Lang;", <<"U+10218">> >>, <<"Laplacetrf;", <<"U+8466">> >>,
      <<"Larr;", <<"U+8606">> >>, <<"Lcaron;", <<"U+317">> >>,
      <<"Lcedil;", <<"U+315">> >>, <<"Lcy;", <<"U+1051">> >>,
      <<"LeftAngleBracket;", <<"U+10216">> >>,
      <<"LeftArrow;", <<"U+8592">> >>, <<"LeftArrowBar;", <<"U+8676">> >>,
      <<"LeftArrowRightArrow;", <<"U+8646">> >>,
      <<"LeftCeiling;", <<"U+8968">> >>,
      <<"LeftDoubleBracket;", <<"U+10214">> >>,
      <<"LeftDownTeeVector;", <<"U+10593">> >>,
      <<"LeftDownVector;", <<"U+8643">> >>,
      <<"LeftDownVectorBar;", <<"U+10585">> >>,
      <<"LeftFloor;", <<"U+8970">> >>, <<"LeftRightArrow;", <<"U+8596">> >>,
      <<"LeftRightVector;", <<"U+10574">> >>, <<"LeftTee;", <<"U+8867">> >>,
      <<"LeftTeeArrow;", <<"U+8612">> >>,
      <<"LeftTeeVector;", <<"U+10586">> >>,
      <<"LeftTriangle;", <<"U+8882">> >>,
      <<"LeftTriangleBar;", <<"U+10703">> >>,
      <<"LeftTriangleEqual;", <<"U+8884">> >>,
      <<"LeftUpDownVector;", <<"U+10577">> >>,
      <<"LeftUpTeeVector;", <<"U+10592">> >>,
      <<"LeftUpVector;", <<"U+8639">> >>,
      <<"LeftUpVectorBar;", <<"U+10584">> >>,
      <<"LeftVector;", <<"U+8636">> >>, <<"LeftVectorBar;", <<"U+10578">> >>,
      <<"Leftarrow;", <<"U+8656">> >>, <<"Leftrightarrow;", <<"U+8660">> >>,
      <<"LessEqualGreater;", <<"U+8922">> >>,
      <<"LessFullEqual;", <<"U+8806">> >>, <<"LessGreater;", <<"U+8822">> >>,
      <<"LessLess;", <<"U+10913">> >>, <<"LessSlantEqual;", <<"U+10877">> >>,
      <<"LessTilde;", <<"U+8818">> >>, <<"Lfr;", <<"U+120079">> >>,
      <<"Ll;", <<"U+8920">> >>, <<"Lleftarrow;", <<"U+8666">> >>,
      <<"Lmidot;", <<"U+319">> >>, <<"LongLeftArrow;", <<"U+10229">> >>,
      <<"LongLeftRightArrow;", <<"U+10231">> >>,
      <<"LongRightArrow;", <<"U+10230">> >>,
      <<"Longleftarrow;", <<"U+10232">> >>,
      <<"Longleftrightarrow;", <<"U+10234">> >>,
      <<"Longrightarrow;", <<"U+10233">> >>, <<"Lopf;", <<"U+120131">> >>,
      <<"LowerLeftArrow;", <<"U+8601">> >>,
      <<"LowerRightArrow;", <<"U+8600">> >>, <<"Lscr;", <<"U+8466">> >>,
      <<"Lsh;", <<"U+8624">> >>, <<"Lstrok;", <<"U+321">> >>,
      <<"Lt;", <<"U+8810">> >>, <<"Map;", <<"U+10501">> >>,
      <<"Mcy;", <<"U+1052">> >>, <<"MediumSpace;", <<"U+8287">> >>,
      <<"Mellintrf;", <<"U+8499">> >>, <<"Mfr;", <<"U+120080">> >>,
      <<"MinusPlus;", <<"U+8723">> >>, <<"Mopf;", <<"U+120132">> >>,
      <<"Mscr;", <<"U+8499">> >>, <<"Mu;", <<"U+924">> >>,
      <<"NJcy;", <<"U+1034">> >>, <<"Nacute;", <<"U+323">> >>,
      <<"Ncaron;", <<"U+327">> >>, <<"Ncedil;", <<"U+325">> >>,
      <<"Ncy;", <<"U+1053">> >>, <<"NegativeMediumSpace;", <<"U+8203">> >>,
      <<"NegativeThickSpace;", <<"U+8203">> >>,
      <<"NegativeThinSpace;", <<"U+8203">> >>,
      <<"NegativeVeryThinSpace;", <<"U+8203">> >>,
      <<"NestedGreaterGreater;", <<"U+8811">> >>,
      <<"NestedLessLess;", <<"U+8810">> >>, <<"NewLine;", <<"\n">> >>,
      <<"Nfr;", <<"U+120081">> >>, <<"NoBreak;", <<"U+8288">> >>,
      <<"NonBreakingSpace;", <<"U+160">> >>, <<"Nopf;", <<"U+8469">> >>,
      <<"Not;", <<"U+10988">> >>, <<"NotCongruent;", <<"U+8802">> >>,
      <<"NotCupCap;", <<"U+8813">> >>,
      <<"NotDoubleVerticalBar;", <<"U+8742">> >>,
      <<"NotElement;", <<"U+8713">> >>, <<"NotEqual;", <<"U+8800">> >>,
      <<"NotEqualTilde;", <<"U+8770","U+824">> >>,
      <<"NotExists;", <<"U+8708">> >>, <<"NotGreater;", <<"U+8815">> >>,
      <<"NotGreaterEqual;", <<"U+8817">> >>,
      <<"NotGreaterFullEqual;", <<"U+8807","U+824">> >>,
      <<"NotGreaterGreater;", <<"U+8811","U+824">> >>,
      <<"NotGreaterLess;", <<"U+8825">> >>,
      <<"NotGreaterSlantEqual;", <<"U+10878","U+824">> >>,
      <<"NotGreaterTilde;", <<"U+8821">> >>,
      <<"NotHumpDownHump;", <<"U+8782","U+824">> >>,
      <<"NotHumpEqual;", <<"U+8783","U+824">> >>,
      <<"NotLeftTriangle;", <<"U+8938">> >>,
      <<"NotLeftTriangleBar;", <<"U+10703","U+824">> >>,
      <<"NotLeftTriangleEqual;", <<"U+8940">> >>,
      <<"NotLess;", <<"U+8814">> >>, <<"NotLessEqual;", <<"U+8816">> >>,
      <<"NotLessGreater;", <<"U+8824">> >>,
      <<"NotLessLess;", <<"U+8810","U+824">> >>,
      <<"NotLessSlantEqual;", <<"U+10877","U+824">> >>,
      <<"NotLessTilde;", <<"U+8820">> >>,
      <<"NotNestedGreaterGreater;", <<"U+10914","U+824">> >>,
      <<"NotNestedLessLess;", <<"U+10913","U+824">> >>,
      <<"NotPrecedes;", <<"U+8832">> >>,
      <<"NotPrecedesEqual;", <<"U+10927","U+824">> >>,
      <<"NotPrecedesSlantEqual;", <<"U+8928">> >>,
      <<"NotReverseElement;", <<"U+8716">> >>,
      <<"NotRightTriangle;", <<"U+8939">> >>,
      <<"NotRightTriangleBar;", <<"U+10704","U+824">> >>,
      <<"NotRightTriangleEqual;", <<"U+8941">> >>,
      <<"NotSquareSubset;", <<"U+8847","U+824">> >>,
      <<"NotSquareSubsetEqual;", <<"U+8930">> >>,
      <<"NotSquareSuperset;", <<"U+8848","U+824">> >>,
      <<"NotSquareSupersetEqual;", <<"U+8931">> >>,
      <<"NotSubset;", <<"U+8834","U+8402">> >>,
      <<"NotSubsetEqual;", <<"U+8840">> >>, <<"NotSucceeds;", <<"U+8833">> >>,
      <<"NotSucceedsEqual;", <<"U+10928","U+824">> >>,
      <<"NotSucceedsSlantEqual;", <<"U+8929">> >>,
      <<"NotSucceedsTilde;", <<"U+8831","U+824">> >>,
      <<"NotSuperset;", <<"U+8835","U+8402">> >>,
      <<"NotSupersetEqual;", <<"U+8841">> >>, <<"NotTilde;", <<"U+8769">> >>,
      <<"NotTildeEqual;", <<"U+8772">> >>,
      <<"NotTildeFullEqual;", <<"U+8775">> >>,
      <<"NotTildeTilde;", <<"U+8777">> >>,
      <<"NotVerticalBar;", <<"U+8740">> >>, <<"Nscr;", <<"U+119977">> >>,
      <<"Ntilde", <<"U+209">> >>, <<"Ntilde;", <<"U+209">> >>,
      <<"Nu;", <<"U+925">> >>, <<"OElig;", <<"U+338">> >>,
      <<"Oacute", <<"U+211">> >>, <<"Oacute;", <<"U+211">> >>,
      <<"Ocirc", <<"U+212">> >>, <<"Ocirc;", <<"U+212">> >>,
      <<"Ocy;", <<"U+1054">> >>, <<"Odblac;", <<"U+336">> >>,
      <<"Ofr;", <<"U+120082">> >>, <<"Ograve", <<"U+210">> >>,
      <<"Ograve;", <<"U+210">> >>, <<"Omacr;", <<"U+332">> >>,
      <<"Omega;", <<"U+937">> >>, <<"Omicron;", <<"U+927">> >>,
      <<"Oopf;", <<"U+120134">> >>,
      <<"OpenCurlyDoubleQuote;", <<"U+8220">> >>,
      <<"OpenCurlyQuote;", <<"U+8216">> >>, <<"Or;", <<"U+10836">> >>,
      <<"Oscr;", <<"U+119978">> >>, <<"Oslash", <<"U+216">> >>,
      <<"Oslash;", <<"U+216">> >>, <<"Otilde", <<"U+213">> >>,
      <<"Otilde;", <<"U+213">> >>, <<"Otimes;", <<"U+10807">> >>,
      <<"Ouml", <<"U+214">> >>, <<"Ouml;", <<"U+214">> >>,
      <<"OverBar;", <<"U+8254">> >>, <<"OverBrace;", <<"U+9182">> >>,
      <<"OverBracket;", <<"U+9140">> >>,
      <<"OverParenthesis;", <<"U+9180">> >>, <<"PartialD;", <<"U+8706">> >>,
      <<"Pcy;", <<"U+1055">> >>, <<"Pfr;", <<"U+120083">> >>,
      <<"Phi;", <<"U+934">> >>, <<"Pi;", <<"U+928">> >>,
      <<"PlusMinus;", <<"U+177">> >>, <<"Poincareplane;", <<"U+8460">> >>,
      <<"Popf;", <<"U+8473">> >>, <<"Pr;", <<"U+10939">> >>,
      <<"Precedes;", <<"U+8826">> >>, <<"PrecedesEqual;", <<"U+10927">> >>,
      <<"PrecedesSlantEqual;", <<"U+8828">> >>,
      <<"PrecedesTilde;", <<"U+8830">> >>, <<"Prime;", <<"U+8243">> >>,
      <<"Product;", <<"U+8719">> >>, <<"Proportion;", <<"U+8759">> >>,
      <<"Proportional;", <<"U+8733">> >>, <<"Pscr;", <<"U+119979">> >>,
      <<"Psi;", <<"U+936">> >>, <<"QUOT", <<"\"">> >>, <<"QUOT;", <<"\"">> >>,
      <<"Qfr;", <<"U+120084">> >>, <<"Qopf;", <<"U+8474">> >>,
      <<"Qscr;", <<"U+119980">> >>, <<"RBarr;", <<"U+10512">> >>,
      <<"REG", <<"U+174">> >>, <<"REG;", <<"U+174">> >>,
      <<"Racute;", <<"U+340">> >>, <<"Rang;", <<"U+10219">> >>,
      <<"Rarr;", <<"U+8608">> >>, <<"Rarrtl;", <<"U+10518">> >>,
      <<"Rcaron;", <<"U+344">> >>, <<"Rcedil;", <<"U+342">> >>,
      <<"Rcy;", <<"U+1056">> >>, <<"Re;", <<"U+8476">> >>,
      <<"ReverseElement;", <<"U+8715">> >>,
      <<"ReverseEquilibrium;", <<"U+8651">> >>,
      <<"ReverseUpEquilibrium;", <<"U+10607">> >>, <<"Rfr;", <<"U+8476">> >>,
      <<"Rho;", <<"U+929">> >>, <<"RightAngleBracket;", <<"U+10217">> >>,
      <<"RightArrow;", <<"U+8594">> >>, <<"RightArrowBar;", <<"U+8677">> >>,
      <<"RightArrowLeftArrow;", <<"U+8644">> >>,
      <<"RightCeiling;", <<"U+8969">> >>,
      <<"RightDoubleBracket;", <<"U+10215">> >>,
      <<"RightDownTeeVector;", <<"U+10589">> >>,
      <<"RightDownVector;", <<"U+8642">> >>,
      <<"RightDownVectorBar;", <<"U+10581">> >>,
      <<"RightFloor;", <<"U+8971">> >>, <<"RightTee;", <<"U+8866">> >>,
      <<"RightTeeArrow;", <<"U+8614">> >>,
      <<"RightTeeVector;", <<"U+10587">> >>,
      <<"RightTriangle;", <<"U+8883">> >>,
      <<"RightTriangleBar;", <<"U+10704">> >>,
      <<"RightTriangleEqual;", <<"U+8885">> >>,
      <<"RightUpDownVector;", <<"U+10575">> >>,
      <<"RightUpTeeVector;", <<"U+10588">> >>,
      <<"RightUpVector;", <<"U+8638">> >>,
      <<"RightUpVectorBar;", <<"U+10580">> >>,
      <<"RightVector;", <<"U+8640">> >>,
      <<"RightVectorBar;", <<"U+10579">> >>, <<"Rightarrow;", <<"U+8658">> >>,
      <<"Ropf;", <<"U+8477">> >>, <<"RoundImplies;", <<"U+10608">> >>,
      <<"Rrightarrow;", <<"U+8667">> >>, <<"Rscr;", <<"U+8475">> >>,
      <<"Rsh;", <<"U+8625">> >>, <<"RuleDelayed;", <<"U+10740">> >>,
      <<"SHCHcy;", <<"U+1065">> >>, <<"SHcy;", <<"U+1064">> >>,
      <<"SOFTcy;", <<"U+1068">> >>, <<"Sacute;", <<"U+346">> >>,
      <<"Sc;", <<"U+10940">> >>, <<"Scaron;", <<"U+352">> >>,
      <<"Scedil;", <<"U+350">> >>, <<"Scirc;", <<"U+348">> >>,
      <<"Scy;", <<"U+1057">> >>, <<"Sfr;", <<"U+120086">> >>,
      <<"ShortDownArrow;", <<"U+8595">> >>,
      <<"ShortLeftArrow;", <<"U+8592">> >>,
      <<"ShortRightArrow;", <<"U+8594">> >>,
      <<"ShortUpArrow;", <<"U+8593">> >>, <<"Sigma;", <<"U+931">> >>,
      <<"SmallCircle;", <<"U+8728">> >>, <<"Sopf;", <<"U+120138">> >>,
      <<"Sqrt;", <<"U+8730">> >>, <<"Square;", <<"U+9633">> >>,
      <<"SquareIntersection;", <<"U+8851">> >>,
      <<"SquareSubset;", <<"U+8847">> >>,
      <<"SquareSubsetEqual;", <<"U+8849">> >>,
      <<"SquareSuperset;", <<"U+8848">> >>,
      <<"SquareSupersetEqual;", <<"U+8850">> >>,
      <<"SquareUnion;", <<"U+8852">> >>, <<"Sscr;", <<"U+119982">> >>,
      <<"Star;", <<"U+8902">> >>, <<"Sub;", <<"U+8912">> >>,
      <<"Subset;", <<"U+8912">> >>, <<"SubsetEqual;", <<"U+8838">> >>,
      <<"Succeeds;", <<"U+8827">> >>, <<"SucceedsEqual;", <<"U+10928">> >>,
      <<"SucceedsSlantEqual;", <<"U+8829">> >>,
      <<"SucceedsTilde;", <<"U+8831">> >>, <<"SuchThat;", <<"U+8715">> >>,
      <<"Sum;", <<"U+8721">> >>, <<"Sup;", <<"U+8913">> >>,
      <<"Superset;", <<"U+8835">> >>, <<"SupersetEqual;", <<"U+8839">> >>,
      <<"Supset;", <<"U+8913">> >>, <<"THORN", <<"U+222">> >>,
      <<"THORN;", <<"U+222">> >>, <<"TRADE;", <<"U+8482">> >>,
      <<"TSHcy;", <<"U+1035">> >>, <<"TScy;", <<"U+1062">> >>,
      <<"Tab;", <<"\t">> >>, <<"Tau;", <<"U+932">> >>,
      <<"Tcaron;", <<"U+356">> >>, <<"Tcedil;", <<"U+354">> >>,
      <<"Tcy;", <<"U+1058">> >>, <<"Tfr;", <<"U+120087">> >>,
      <<"Therefore;", <<"U+8756">> >>, <<"Theta;", <<"U+920">> >>,
      <<"ThickSpace;", <<"U+8287","U+8202">> >>,
      <<"ThinSpace;", <<"U+8201">> >>, <<"Tilde;", <<"U+8764">> >>,
      <<"TildeEqual;", <<"U+8771">> >>, <<"TildeFullEqual;", <<"U+8773">> >>,
      <<"TildeTilde;", <<"U+8776">> >>, <<"Topf;", <<"U+120139">> >>,
      <<"TripleDot;", <<"U+8411">> >>, <<"Tscr;", <<"U+119983">> >>,
      <<"Tstrok;", <<"U+358">> >>, <<"Uacute", <<"U+218">> >>,
      <<"Uacute;", <<"U+218">> >>, <<"Uarr;", <<"U+8607">> >>,
      <<"Uarrocir;", <<"U+10569">> >>, <<"Ubrcy;", <<"U+1038">> >>,
      <<"Ubreve;", <<"U+364">> >>, <<"Ucirc", <<"U+219">> >>,
      <<"Ucirc;", <<"U+219">> >>, <<"Ucy;", <<"U+1059">> >>,
      <<"Udblac;", <<"U+368">> >>, <<"Ufr;", <<"U+120088">> >>,
      <<"Ugrave", <<"U+217">> >>, <<"Ugrave;", <<"U+217">> >>,
      <<"Umacr;", <<"U+362">> >>, <<"UnderBar;", <<"_">> >>,
      <<"UnderBrace;", <<"U+9183">> >>, <<"UnderBracket;", <<"U+9141">> >>,
      <<"UnderParenthesis;", <<"U+9181">> >>, <<"Union;", <<"U+8899">> >>,
      <<"UnionPlus;", <<"U+8846">> >>, <<"Uogon;", <<"U+370">> >>,
      <<"Uopf;", <<"U+120140">> >>, <<"UpArrow;", <<"U+8593">> >>,
      <<"UpArrowBar;", <<"U+10514">> >>,
      <<"UpArrowDownArrow;", <<"U+8645">> >>,
      <<"UpDownArrow;", <<"U+8597">> >>, <<"UpEquilibrium;", <<"U+10606">> >>,
      <<"UpTee;", <<"U+8869">> >>, <<"UpTeeArrow;", <<"U+8613">> >>,
      <<"Uparrow;", <<"U+8657">> >>, <<"Updownarrow;", <<"U+8661">> >>,
      <<"UpperLeftArrow;", <<"U+8598">> >>,
      <<"UpperRightArrow;", <<"U+8599">> >>, <<"Upsi;", <<"U+978">> >>,
      <<"Upsilon;", <<"U+933">> >>, <<"Uring;", <<"U+366">> >>,
      <<"Uscr;", <<"U+119984">> >>, <<"Utilde;", <<"U+360">> >>,
      <<"Uuml", <<"U+220">> >>, <<"Uuml;", <<"U+220">> >>,
      <<"VDash;", <<"U+8875">> >>, <<"Vbar;", <<"U+10987">> >>,
      <<"Vcy;", <<"U+1042">> >>, <<"Vdash;", <<"U+8873">> >>,
      <<"Vdashl;", <<"U+10982">> >>, <<"Vee;", <<"U+8897">> >>,
      <<"Verbar;", <<"U+8214">> >>, <<"Vert;", <<"U+8214">> >>,
      <<"VerticalBar;", <<"U+8739">> >>, <<"VerticalLine;", <<"|">> >>,
      <<"VerticalSeparator;", <<"U+10072">> >>,
      <<"VerticalTilde;", <<"U+8768">> >>,
      <<"VeryThinSpace;", <<"U+8202">> >>, <<"Vfr;", <<"U+120089">> >>,
      <<"Vopf;", <<"U+120141">> >>, <<"Vscr;", <<"U+119985">> >>,
      <<"Vvdash;", <<"U+8874">> >>, <<"Wcirc;", <<"U+372">> >>,
      <<"Wedge;", <<"U+8896">> >>, <<"Wfr;", <<"U+120090">> >>,
      <<"Wopf;", <<"U+120142">> >>, <<"Wscr;", <<"U+119986">> >>,
      <<"Xfr;", <<"U+120091">> >>, <<"Xi;", <<"U+926">> >>,
      <<"Xopf;", <<"U+120143">> >>, <<"Xscr;", <<"U+119987">> >>,
      <<"YAcy;", <<"U+1071">> >>, <<"YIcy;", <<"U+1031">> >>,
      <<"YUcy;", <<"U+1070">> >>, <<"Yacute", <<"U+221">> >>,
      <<"Yacute;", <<"U+221">> >>, <<"Ycirc;", <<"U+374">> >>,
      <<"Ycy;", <<"U+1067">> >>, <<"Yfr;", <<"U+120092">> >>,
      <<"Yopf;", <<"U+120144">> >>, <<"Yscr;", <<"U+119988">> >>,
      <<"Yuml;", <<"U+376">> >>, <<"ZHcy;", <<"U+1046">> >>,
      <<"Zacute;", <<"U+377">> >>, <<"Zcaron;", <<"U+381">> >>,
      <<"Zcy;", <<"U+1047">> >>, <<"Zdot;", <<"U+379">> >>,
      <<"ZeroWidthSpace;", <<"U+8203">> >>, <<"Zeta;", <<"U+918">> >>,
      <<"Zfr;", <<"U+8488">> >>, <<"Zopf;", <<"U+8484">> >>,
      <<"Zscr;", <<"U+119989">> >>, <<"aacute", <<"U+225">> >>,
      <<"aacute;", <<"U+225">> >>, <<"abreve;", <<"U+259">> >>,
      <<"ac;", <<"U+8766">> >>, <<"acE;", <<"U+8766","U+819">> >>,
      <<"acd;", <<"U+8767">> >>, <<"acirc", <<"U+226">> >>,
      <<"acirc;", <<"U+226">> >>, <<"acute", <<"U+180">> >>,
      <<"acute;", <<"U+180">> >>, <<"acy;", <<"U+1072">> >>,
      <<"aelig", <<"U+230">> >>, <<"aelig;", <<"U+230">> >>,
      <<"af;", <<"U+8289">> >>, <<"afr;", <<"U+120094">> >>,
      <<"agrave", <<"U+224">> >>, <<"agrave;", <<"U+224">> >>,
      <<"alefsym;", <<"U+8501">> >>, <<"aleph;", <<"U+8501">> >>,
      <<"alpha;", <<"U+945">> >>, <<"amacr;", <<"U+257">> >>,
      <<"amalg;", <<"U+10815">> >>, <<"amp", <<"&">> >>, <<"amp;", <<"&">> >>,
      <<"and;", <<"U+8743">> >>, <<"andand;", <<"U+10837">> >>,
      <<"andd;", <<"U+10844">> >>, <<"andslope;", <<"U+10840">> >>,
      <<"andv;", <<"U+10842">> >>, <<"ang;", <<"U+8736">> >>,
      <<"ange;", <<"U+10660">> >>, <<"angle;", <<"U+8736">> >>,
      <<"angmsd;", <<"U+8737">> >>, <<"angmsdaa;", <<"U+10664">> >>,
      <<"angmsdab;", <<"U+10665">> >>, <<"angmsdac;", <<"U+10666">> >>,
      <<"angmsdad;", <<"U+10667">> >>, <<"angmsdae;", <<"U+10668">> >>,
      <<"angmsdaf;", <<"U+10669">> >>, <<"angmsdag;", <<"U+10670">> >>,
      <<"angmsdah;", <<"U+10671">> >>, <<"angrt;", <<"U+8735">> >>,
      <<"angrtvb;", <<"U+8894">> >>, <<"angrtvbd;", <<"U+10653">> >>,
      <<"angsph;", <<"U+8738">> >>, <<"angst;", <<"U+197">> >>,
      <<"angzarr;", <<"U+9084">> >>, <<"aogon;", <<"U+261">> >>,
      <<"aopf;", <<"U+120146">> >>, <<"ap;", <<"U+8776">> >>,
      <<"apE;", <<"U+10864">> >>, <<"apacir;", <<"U+10863">> >>,
      <<"ape;", <<"U+8778">> >>, <<"apid;", <<"U+8779">> >>,
      <<"apos;", <<"'">> >>, <<"approx;", <<"U+8776">> >>,
      <<"approxeq;", <<"U+8778">> >>, <<"aring", <<"U+229">> >>,
      <<"aring;", <<"U+229">> >>, <<"ascr;", <<"U+119990">> >>,
      <<"ast;", <<"*">> >>, <<"asymp;", <<"U+8776">> >>,
      <<"asympeq;", <<"U+8781">> >>, <<"atilde", <<"U+227">> >>,
      <<"atilde;", <<"U+227">> >>, <<"auml", <<"U+228">> >>,
      <<"auml;", <<"U+228">> >>, <<"awconint;", <<"U+8755">> >>,
      <<"awint;", <<"U+10769">> >>, <<"bNot;", <<"U+10989">> >>,
      <<"backcong;", <<"U+8780">> >>, <<"backepsilon;", <<"U+1014">> >>,
      <<"backprime;", <<"U+8245">> >>, <<"backsim;", <<"U+8765">> >>,
      <<"backsimeq;", <<"U+8909">> >>, <<"barvee;", <<"U+8893">> >>,
      <<"barwed;", <<"U+8965">> >>, <<"barwedge;", <<"U+8965">> >>,
      <<"bbrk;", <<"U+9141">> >>, <<"bbrktbrk;", <<"U+9142">> >>,
      <<"bcong;", <<"U+8780">> >>, <<"bcy;", <<"U+1073">> >>,
      <<"bdquo;", <<"U+8222">> >>, <<"becaus;", <<"U+8757">> >>,
      <<"because;", <<"U+8757">> >>, <<"bemptyv;", <<"U+10672">> >>,
      <<"bepsi;", <<"U+1014">> >>, <<"bernou;", <<"U+8492">> >>,
      <<"beta;", <<"U+946">> >>, <<"beth;", <<"U+8502">> >>,
      <<"between;", <<"U+8812">> >>, <<"bfr;", <<"U+120095">> >>,
      <<"bigcap;", <<"U+8898">> >>, <<"bigcirc;", <<"U+9711">> >>,
      <<"bigcup;", <<"U+8899">> >>, <<"bigodot;", <<"U+10752">> >>,
      <<"bigoplus;", <<"U+10753">> >>, <<"bigotimes;", <<"U+10754">> >>,
      <<"bigsqcup;", <<"U+10758">> >>, <<"bigstar;", <<"U+9733">> >>,
      <<"bigtriangledown;", <<"U+9661">> >>,
      <<"bigtriangleup;", <<"U+9651">> >>, <<"biguplus;", <<"U+10756">> >>,
      <<"bigvee;", <<"U+8897">> >>, <<"bigwedge;", <<"U+8896">> >>,
      <<"bkarow;", <<"U+10509">> >>, <<"blacklozenge;", <<"U+10731">> >>,
      <<"blacksquare;", <<"U+9642">> >>, <<"blacktriangle;", <<"U+9652">> >>,
      <<"blacktriangledown;", <<"U+9662">> >>,
      <<"blacktriangleleft;", <<"U+9666">> >>,
      <<"blacktriangleright;", <<"U+9656">> >>, <<"blank;", <<"U+9251">> >>,
      <<"blk12;", <<"U+9618">> >>, <<"blk14;", <<"U+9617">> >>,
      <<"blk34;", <<"U+9619">> >>, <<"block;", <<"U+9608">> >>,
      <<"bne;", <<"=","U+8421">> >>, <<"bnequiv;", <<"U+8801","U+8421">> >>,
      <<"bnot;", <<"U+8976">> >>, <<"bopf;", <<"U+120147">> >>,
      <<"bot;", <<"U+8869">> >>, <<"bottom;", <<"U+8869">> >>,
      <<"bowtie;", <<"U+8904">> >>, <<"boxDL;", <<"U+9559">> >>,
      <<"boxDR;", <<"U+9556">> >>, <<"boxDl;", <<"U+9558">> >>,
      <<"boxDr;", <<"U+9555">> >>, <<"boxH;", <<"U+9552">> >>,
      <<"boxHD;", <<"U+9574">> >>, <<"boxHU;", <<"U+9577">> >>,
      <<"boxHd;", <<"U+9572">> >>, <<"boxHu;", <<"U+9575">> >>,
      <<"boxUL;", <<"U+9565">> >>, <<"boxUR;", <<"U+9562">> >>,
      <<"boxUl;", <<"U+9564">> >>, <<"boxUr;", <<"U+9561">> >>,
      <<"boxV;", <<"U+9553">> >>, <<"boxVH;", <<"U+9580">> >>,
      <<"boxVL;", <<"U+9571">> >>, <<"boxVR;", <<"U+9568">> >>,
      <<"boxVh;", <<"U+9579">> >>, <<"boxVl;", <<"U+9570">> >>,
      <<"boxVr;", <<"U+9567">> >>, <<"boxbox;", <<"U+10697">> >>,
      <<"boxdL;", <<"U+9557">> >>, <<"boxdR;", <<"U+9554">> >>,
      <<"boxdl;", <<"U+9488">> >>, <<"boxdr;", <<"U+9484">> >>,
      <<"boxh;", <<"U+9472">> >>, <<"boxhD;", <<"U+9573">> >>,
      <<"boxhU;", <<"U+9576">> >>, <<"boxhd;", <<"U+9516">> >>,
      <<"boxhu;", <<"U+9524">> >>, <<"boxminus;", <<"U+8863">> >>,
      <<"boxplus;", <<"U+8862">> >>, <<"boxtimes;", <<"U+8864">> >>,
      <<"boxuL;", <<"U+9563">> >>, <<"boxuR;", <<"U+9560">> >>,
      <<"boxul;", <<"U+9496">> >>, <<"boxur;", <<"U+9492">> >>,
      <<"boxv;", <<"U+9474">> >>, <<"boxvH;", <<"U+9578">> >>,
      <<"boxvL;", <<"U+9569">> >>, <<"boxvR;", <<"U+9566">> >>,
      <<"boxvh;", <<"U+9532">> >>, <<"boxvl;", <<"U+9508">> >>,
      <<"boxvr;", <<"U+9500">> >>, <<"bprime;", <<"U+8245">> >>,
      <<"breve;", <<"U+728">> >>, <<"brvbar", <<"U+166">> >>,
      <<"brvbar;", <<"U+166">> >>, <<"bscr;", <<"U+119991">> >>,
      <<"bsemi;", <<"U+8271">> >>, <<"bsim;", <<"U+8765">> >>,
      <<"bsime;", <<"U+8909">> >>, <<"bsol;", <<"\\">> >>,
      <<"bsolb;", <<"U+10693">> >>, <<"bsolhsub;", <<"U+10184">> >>,
      <<"bull;", <<"U+8226">> >>, <<"bullet;", <<"U+8226">> >>,
      <<"bump;", <<"U+8782">> >>, <<"bumpE;", <<"U+10926">> >>,
      <<"bumpe;", <<"U+8783">> >>, <<"bumpeq;", <<"U+8783">> >>,
      <<"cacute;", <<"U+263">> >>, <<"cap;", <<"U+8745">> >>,
      <<"capand;", <<"U+10820">> >>, <<"capbrcup;", <<"U+10825">> >>,
      <<"capcap;", <<"U+10827">> >>, <<"capcup;", <<"U+10823">> >>,
      <<"capdot;", <<"U+10816">> >>, <<"caps;", <<"U+8745","U+65024">> >>,
      <<"caret;", <<"U+8257">> >>, <<"caron;", <<"U+711">> >>,
      <<"ccaps;", <<"U+10829">> >>, <<"ccaron;", <<"U+269">> >>,
      <<"ccedil", <<"U+231">> >>, <<"ccedil;", <<"U+231">> >>,
      <<"ccirc;", <<"U+265">> >>, <<"ccups;", <<"U+10828">> >>,
      <<"ccupssm;", <<"U+10832">> >>, <<"cdot;", <<"U+267">> >>,
      <<"cedil", <<"U+184">> >>, <<"cedil;", <<"U+184">> >>,
      <<"cemptyv;", <<"U+10674">> >>, <<"cent", <<"U+162">> >>,
      <<"cent;", <<"U+162">> >>, <<"centerdot;", <<"U+183">> >>,
      <<"cfr;", <<"U+120096">> >>, <<"chcy;", <<"U+1095">> >>,
      <<"check;", <<"U+10003">> >>, <<"checkmark;", <<"U+10003">> >>,
      <<"chi;", <<"U+967">> >>, <<"cir;", <<"U+9675">> >>,
      <<"cirE;", <<"U+10691">> >>, <<"circ;", <<"U+710">> >>,
      <<"circeq;", <<"U+8791">> >>, <<"circlearrowleft;", <<"U+8634">> >>,
      <<"circlearrowright;", <<"U+8635">> >>, <<"circledR;", <<"U+174">> >>,
      <<"circledS;", <<"U+9416">> >>, <<"circledast;", <<"U+8859">> >>,
      <<"circledcirc;", <<"U+8858">> >>, <<"circleddash;", <<"U+8861">> >>,
      <<"cire;", <<"U+8791">> >>, <<"cirfnint;", <<"U+10768">> >>,
      <<"cirmid;", <<"U+10991">> >>, <<"cirscir;", <<"U+10690">> >>,
      <<"clubs;", <<"U+9827">> >>, <<"clubsuit;", <<"U+9827">> >>,
      <<"colon;", <<":">> >>, <<"colone;", <<"U+8788">> >>,
      <<"coloneq;", <<"U+8788">> >>, <<"comma;", <<",">> >>,
      <<"commat;", <<"@">> >>, <<"comp;", <<"U+8705">> >>,
      <<"compfn;", <<"U+8728">> >>, <<"complement;", <<"U+8705">> >>,
      <<"complexes;", <<"U+8450">> >>, <<"cong;", <<"U+8773">> >>,
      <<"congdot;", <<"U+10861">> >>, <<"conint;", <<"U+8750">> >>,
      <<"copf;", <<"U+120148">> >>, <<"coprod;", <<"U+8720">> >>,
      <<"copy", <<"U+169">> >>, <<"copy;", <<"U+169">> >>,
      <<"copysr;", <<"U+8471">> >>, <<"crarr;", <<"U+8629">> >>,
      <<"cross;", <<"U+10007">> >>, <<"cscr;", <<"U+119992">> >>,
      <<"csub;", <<"U+10959">> >>, <<"csube;", <<"U+10961">> >>,
      <<"csup;", <<"U+10960">> >>, <<"csupe;", <<"U+10962">> >>,
      <<"ctdot;", <<"U+8943">> >>, <<"cudarrl;", <<"U+10552">> >>,
      <<"cudarrr;", <<"U+10549">> >>, <<"cuepr;", <<"U+8926">> >>,
      <<"cuesc;", <<"U+8927">> >>, <<"cularr;", <<"U+8630">> >>,
      <<"cularrp;", <<"U+10557">> >>, <<"cup;", <<"U+8746">> >>,
      <<"cupbrcap;", <<"U+10824">> >>, <<"cupcap;", <<"U+10822">> >>,
      <<"cupcup;", <<"U+10826">> >>, <<"cupdot;", <<"U+8845">> >>,
      <<"cupor;", <<"U+10821">> >>, <<"cups;", <<"U+8746","U+65024">> >>,
      <<"curarr;", <<"U+8631">> >>, <<"curarrm;", <<"U+10556">> >>,
      <<"curlyeqprec;", <<"U+8926">> >>, <<"curlyeqsucc;", <<"U+8927">> >>,
      <<"curlyvee;", <<"U+8910">> >>, <<"curlywedge;", <<"U+8911">> >>,
      <<"curren", <<"U+164">> >>, <<"curren;", <<"U+164">> >>,
      <<"curvearrowleft;", <<"U+8630">> >>,
      <<"curvearrowright;", <<"U+8631">> >>, <<"cuvee;", <<"U+8910">> >>,
      <<"cuwed;", <<"U+8911">> >>, <<"cwconint;", <<"U+8754">> >>,
      <<"cwint;", <<"U+8753">> >>, <<"cylcty;", <<"U+9005">> >>,
      <<"dArr;", <<"U+8659">> >>, <<"dHar;", <<"U+10597">> >>,
      <<"dagger;", <<"U+8224">> >>, <<"daleth;", <<"U+8504">> >>,
      <<"darr;", <<"U+8595">> >>, <<"dash;", <<"U+8208">> >>,
      <<"dashv;", <<"U+8867">> >>, <<"dbkarow;", <<"U+10511">> >>,
      <<"dblac;", <<"U+733">> >>, <<"dcaron;", <<"U+271">> >>,
      <<"dcy;", <<"U+1076">> >>, <<"dd;", <<"U+8518">> >>,
      <<"ddagger;", <<"U+8225">> >>, <<"ddarr;", <<"U+8650">> >>,
      <<"ddotseq;", <<"U+10871">> >>, <<"deg", <<"U+176">> >>,
      <<"deg;", <<"U+176">> >>, <<"delta;", <<"U+948">> >>,
      <<"demptyv;", <<"U+10673">> >>, <<"dfisht;", <<"U+10623">> >>,
      <<"dfr;", <<"U+120097">> >>, <<"dharl;", <<"U+8643">> >>,
      <<"dharr;", <<"U+8642">> >>, <<"diam;", <<"U+8900">> >>,
      <<"diamond;", <<"U+8900">> >>, <<"diamondsuit;", <<"U+9830">> >>,
      <<"diams;", <<"U+9830">> >>, <<"die;", <<"U+168">> >>,
      <<"digamma;", <<"U+989">> >>, <<"disin;", <<"U+8946">> >>,
      <<"div;", <<"U+247">> >>, <<"divide", <<"U+247">> >>,
      <<"divide;", <<"U+247">> >>, <<"divideontimes;", <<"U+8903">> >>,
      <<"divonx;", <<"U+8903">> >>, <<"djcy;", <<"U+1106">> >>,
      <<"dlcorn;", <<"U+8990">> >>, <<"dlcrop;", <<"U+8973">> >>,
      <<"dollar;", <<"$">> >>, <<"dopf;", <<"U+120149">> >>,
      <<"dot;", <<"U+729">> >>, <<"doteq;", <<"U+8784">> >>,
      <<"doteqdot;", <<"U+8785">> >>, <<"dotminus;", <<"U+8760">> >>,
      <<"dotplus;", <<"U+8724">> >>, <<"dotsquare;", <<"U+8865">> >>,
      <<"doublebarwedge;", <<"U+8966">> >>, <<"downarrow;", <<"U+8595">> >>,
      <<"downdownarrows;", <<"U+8650">> >>,
      <<"downharpoonleft;", <<"U+8643">> >>,
      <<"downharpoonright;", <<"U+8642">> >>, <<"drbkarow;", <<"U+10512">> >>,
      <<"drcorn;", <<"U+8991">> >>, <<"drcrop;", <<"U+8972">> >>,
      <<"dscr;", <<"U+119993">> >>, <<"dscy;", <<"U+1109">> >>,
      <<"dsol;", <<"U+10742">> >>, <<"dstrok;", <<"U+273">> >>,
      <<"dtdot;", <<"U+8945">> >>, <<"dtri;", <<"U+9663">> >>,
      <<"dtrif;", <<"U+9662">> >>, <<"duarr;", <<"U+8693">> >>,
      <<"duhar;", <<"U+10607">> >>, <<"dwangle;", <<"U+10662">> >>,
      <<"dzcy;", <<"U+1119">> >>, <<"dzigrarr;", <<"U+10239">> >>,
      <<"eDDot;", <<"U+10871">> >>, <<"eDot;", <<"U+8785">> >>,
      <<"eacute", <<"U+233">> >>, <<"eacute;", <<"U+233">> >>,
      <<"easter;", <<"U+10862">> >>, <<"ecaron;", <<"U+283">> >>,
      <<"ecir;", <<"U+8790">> >>, <<"ecirc", <<"U+234">> >>,
      <<"ecirc;", <<"U+234">> >>, <<"ecolon;", <<"U+8789">> >>,
      <<"ecy;", <<"U+1101">> >>, <<"edot;", <<"U+279">> >>,
      <<"ee;", <<"U+8519">> >>, <<"efDot;", <<"U+8786">> >>,
      <<"efr;", <<"U+120098">> >>, <<"eg;", <<"U+10906">> >>,
      <<"egrave", <<"U+232">> >>, <<"egrave;", <<"U+232">> >>,
      <<"egs;", <<"U+10902">> >>, <<"egsdot;", <<"U+10904">> >>,
      <<"el;", <<"U+10905">> >>, <<"elinters;", <<"U+9191">> >>,
      <<"ell;", <<"U+8467">> >>, <<"els;", <<"U+10901">> >>,
      <<"elsdot;", <<"U+10903">> >>, <<"emacr;", <<"U+275">> >>,
      <<"empty;", <<"U+8709">> >>, <<"emptyset;", <<"U+8709">> >>,
      <<"emptyv;", <<"U+8709">> >>, <<"emsp13;", <<"U+8196">> >>,
      <<"emsp14;", <<"U+8197">> >>, <<"emsp;", <<"U+8195">> >>,
      <<"eng;", <<"U+331">> >>, <<"ensp;", <<"U+8194">> >>,
      <<"eogon;", <<"U+281">> >>, <<"eopf;", <<"U+120150">> >>,
      <<"epar;", <<"U+8917">> >>, <<"eparsl;", <<"U+10723">> >>,
      <<"eplus;", <<"U+10865">> >>, <<"epsi;", <<"U+949">> >>,
      <<"epsilon;", <<"U+949">> >>, <<"epsiv;", <<"U+1013">> >>,
      <<"eqcirc;", <<"U+8790">> >>, <<"eqcolon;", <<"U+8789">> >>,
      <<"eqsim;", <<"U+8770">> >>, <<"eqslantgtr;", <<"U+10902">> >>,
      <<"eqslantless;", <<"U+10901">> >>, <<"equals;", <<"=">> >>,
      <<"equest;", <<"U+8799">> >>, <<"equiv;", <<"U+8801">> >>,
      <<"equivDD;", <<"U+10872">> >>, <<"eqvparsl;", <<"U+10725">> >>,
      <<"erDot;", <<"U+8787">> >>, <<"erarr;", <<"U+10609">> >>,
      <<"escr;", <<"U+8495">> >>, <<"esdot;", <<"U+8784">> >>,
      <<"esim;", <<"U+8770">> >>, <<"eta;", <<"U+951">> >>,
      <<"eth", <<"U+240">> >>, <<"eth;", <<"U+240">> >>,
      <<"euml", <<"U+235">> >>, <<"euml;", <<"U+235">> >>,
      <<"euro;", <<"U+8364">> >>, <<"excl;", <<"!">> >>,
      <<"exist;", <<"U+8707">> >>, <<"expectation;", <<"U+8496">> >>,
      <<"exponentiale;", <<"U+8519">> >>, <<"fallingdotseq;", <<"U+8786">> >>,
      <<"fcy;", <<"U+1092">> >>, <<"female;", <<"U+9792">> >>,
      <<"ffilig;", <<"U+64259">> >>, <<"fflig;", <<"U+64256">> >>,
      <<"ffllig;", <<"U+64260">> >>, <<"ffr;", <<"U+120099">> >>,
      <<"filig;", <<"U+64257">> >>, <<"fjlig;", <<"f","j">> >>,
      <<"flat;", <<"U+9837">> >>, <<"fllig;", <<"U+64258">> >>,
      <<"fltns;", <<"U+9649">> >>, <<"fnof;", <<"U+402">> >>,
      <<"fopf;", <<"U+120151">> >>, <<"forall;", <<"U+8704">> >>,
      <<"fork;", <<"U+8916">> >>, <<"forkv;", <<"U+10969">> >>,
      <<"fpartint;", <<"U+10765">> >>, <<"frac12", <<"U+189">> >>,
      <<"frac12;", <<"U+189">> >>, <<"frac13;", <<"U+8531">> >>,
      <<"frac14", <<"U+188">> >>, <<"frac14;", <<"U+188">> >>,
      <<"frac15;", <<"U+8533">> >>, <<"frac16;", <<"U+8537">> >>,
      <<"frac18;", <<"U+8539">> >>, <<"frac23;", <<"U+8532">> >>,
      <<"frac25;", <<"U+8534">> >>, <<"frac34", <<"U+190">> >>,
      <<"frac34;", <<"U+190">> >>, <<"frac35;", <<"U+8535">> >>,
      <<"frac38;", <<"U+8540">> >>, <<"frac45;", <<"U+8536">> >>,
      <<"frac56;", <<"U+8538">> >>, <<"frac58;", <<"U+8541">> >>,
      <<"frac78;", <<"U+8542">> >>, <<"frasl;", <<"U+8260">> >>,
      <<"frown;", <<"U+8994">> >>, <<"fscr;", <<"U+119995">> >>,
      <<"gE;", <<"U+8807">> >>, <<"gEl;", <<"U+10892">> >>,
      <<"gacute;", <<"U+501">> >>, <<"gamma;", <<"U+947">> >>,
      <<"gammad;", <<"U+989">> >>, <<"gap;", <<"U+10886">> >>,
      <<"gbreve;", <<"U+287">> >>, <<"gcirc;", <<"U+285">> >>,
      <<"gcy;", <<"U+1075">> >>, <<"gdot;", <<"U+289">> >>,
      <<"ge;", <<"U+8805">> >>, <<"gel;", <<"U+8923">> >>,
      <<"geq;", <<"U+8805">> >>, <<"geqq;", <<"U+8807">> >>,
      <<"geqslant;", <<"U+10878">> >>, <<"ges;", <<"U+10878">> >>,
      <<"gescc;", <<"U+10921">> >>, <<"gesdot;", <<"U+10880">> >>,
      <<"gesdoto;", <<"U+10882">> >>, <<"gesdotol;", <<"U+10884">> >>,
      <<"gesl;", <<"U+8923","U+65024">> >>, <<"gesles;", <<"U+10900">> >>,
      <<"gfr;", <<"U+120100">> >>, <<"gg;", <<"U+8811">> >>,
      <<"ggg;", <<"U+8921">> >>, <<"gimel;", <<"U+8503">> >>,
      <<"gjcy;", <<"U+1107">> >>, <<"gl;", <<"U+8823">> >>,
      <<"glE;", <<"U+10898">> >>, <<"gla;", <<"U+10917">> >>,
      <<"glj;", <<"U+10916">> >>, <<"gnE;", <<"U+8809">> >>,
      <<"gnap;", <<"U+10890">> >>, <<"gnapprox;", <<"U+10890">> >>,
      <<"gne;", <<"U+10888">> >>, <<"gneq;", <<"U+10888">> >>,
      <<"gneqq;", <<"U+8809">> >>, <<"gnsim;", <<"U+8935">> >>,
      <<"gopf;", <<"U+120152">> >>, <<"grave;", <<"U+96">> >>,
      <<"gscr;", <<"U+8458">> >>, <<"gsim;", <<"U+8819">> >>,
      <<"gsime;", <<"U+10894">> >>, <<"gsiml;", <<"U+10896">> >>,
      <<"gt", <<">">> >>, <<"gt;", <<">">> >>, <<"gtcc;", <<"U+10919">> >>,
      <<"gtcir;", <<"U+10874">> >>, <<"gtdot;", <<"U+8919">> >>,
      <<"gtlPar;", <<"U+10645">> >>, <<"gtquest;", <<"U+10876">> >>,
      <<"gtrapprox;", <<"U+10886">> >>, <<"gtrarr;", <<"U+10616">> >>,
      <<"gtrdot;", <<"U+8919">> >>, <<"gtreqless;", <<"U+8923">> >>,
      <<"gtreqqless;", <<"U+10892">> >>, <<"gtrless;", <<"U+8823">> >>,
      <<"gtrsim;", <<"U+8819">> >>, <<"gvertneqq;", <<"U+8809","U+65024">> >>,
      <<"gvnE;", <<"U+8809","U+65024">> >>, <<"hArr;", <<"U+8660">> >>,
      <<"hairsp;", <<"U+8202">> >>, <<"half;", <<"U+189">> >>,
      <<"hamilt;", <<"U+8459">> >>, <<"hardcy;", <<"U+1098">> >>,
      <<"harr;", <<"U+8596">> >>, <<"harrcir;", <<"U+10568">> >>,
      <<"harrw;", <<"U+8621">> >>, <<"hbar;", <<"U+8463">> >>,
      <<"hcirc;", <<"U+293">> >>, <<"hearts;", <<"U+9829">> >>,
      <<"heartsuit;", <<"U+9829">> >>, <<"hellip;", <<"U+8230">> >>,
      <<"hercon;", <<"U+8889">> >>, <<"hfr;", <<"U+120101">> >>,
      <<"hksearow;", <<"U+10533">> >>, <<"hkswarow;", <<"U+10534">> >>,
      <<"hoarr;", <<"U+8703">> >>, <<"homtht;", <<"U+8763">> >>,
      <<"hookleftarrow;", <<"U+8617">> >>,
      <<"hookrightarrow;", <<"U+8618">> >>, <<"hopf;", <<"U+120153">> >>,
      <<"horbar;", <<"U+8213">> >>, <<"hscr;", <<"U+119997">> >>,
      <<"hslash;", <<"U+8463">> >>, <<"hstrok;", <<"U+295">> >>,
      <<"hybull;", <<"U+8259">> >>, <<"hyphen;", <<"U+8208">> >>,
      <<"iacute", <<"U+237">> >>, <<"iacute;", <<"U+237">> >>,
      <<"ic;", <<"U+8291">> >>, <<"icirc", <<"U+238">> >>,
      <<"icirc;", <<"U+238">> >>, <<"icy;", <<"U+1080">> >>,
      <<"iecy;", <<"U+1077">> >>, <<"iexcl", <<"U+161">> >>,
      <<"iexcl;", <<"U+161">> >>, <<"iff;", <<"U+8660">> >>,
      <<"ifr;", <<"U+120102">> >>, <<"igrave", <<"U+236">> >>,
      <<"igrave;", <<"U+236">> >>, <<"ii;", <<"U+8520">> >>,
      <<"iiiint;", <<"U+10764">> >>, <<"iiint;", <<"U+8749">> >>,
      <<"iinfin;", <<"U+10716">> >>, <<"iiota;", <<"U+8489">> >>,
      <<"ijlig;", <<"U+307">> >>, <<"imacr;", <<"U+299">> >>,
      <<"image;", <<"U+8465">> >>, <<"imagline;", <<"U+8464">> >>,
      <<"imagpart;", <<"U+8465">> >>, <<"imath;", <<"U+305">> >>,
      <<"imof;", <<"U+8887">> >>, <<"imped;", <<"U+437">> >>,
      <<"in;", <<"U+8712">> >>, <<"incare;", <<"U+8453">> >>,
      <<"infin;", <<"U+8734">> >>, <<"infintie;", <<"U+10717">> >>,
      <<"inodot;", <<"U+305">> >>, <<"int;", <<"U+8747">> >>,
      <<"intcal;", <<"U+8890">> >>, <<"integers;", <<"U+8484">> >>,
      <<"intercal;", <<"U+8890">> >>, <<"intlarhk;", <<"U+10775">> >>,
      <<"intprod;", <<"U+10812">> >>, <<"iocy;", <<"U+1105">> >>,
      <<"iogon;", <<"U+303">> >>, <<"iopf;", <<"U+120154">> >>,
      <<"iota;", <<"U+953">> >>, <<"iprod;", <<"U+10812">> >>,
      <<"iquest", <<"U+191">> >>, <<"iquest;", <<"U+191">> >>,
      <<"iscr;", <<"U+119998">> >>, <<"isin;", <<"U+8712">> >>,
      <<"isinE;", <<"U+8953">> >>, <<"isindot;", <<"U+8949">> >>,
      <<"isins;", <<"U+8948">> >>, <<"isinsv;", <<"U+8947">> >>,
      <<"isinv;", <<"U+8712">> >>, <<"it;", <<"U+8290">> >>,
      <<"itilde;", <<"U+297">> >>, <<"iukcy;", <<"U+1110">> >>,
      <<"iuml", <<"U+239">> >>, <<"iuml;", <<"U+239">> >>,
      <<"jcirc;", <<"U+309">> >>, <<"jcy;", <<"U+1081">> >>,
      <<"jfr;", <<"U+120103">> >>, <<"jmath;", <<"U+567">> >>,
      <<"jopf;", <<"U+120155">> >>, <<"jscr;", <<"U+119999">> >>,
      <<"jsercy;", <<"U+1112">> >>, <<"jukcy;", <<"U+1108">> >>,
      <<"kappa;", <<"U+954">> >>, <<"kappav;", <<"U+1008">> >>,
      <<"kcedil;", <<"U+311">> >>, <<"kcy;", <<"U+1082">> >>,
      <<"kfr;", <<"U+120104">> >>, <<"kgreen;", <<"U+312">> >>,
      <<"khcy;", <<"U+1093">> >>, <<"kjcy;", <<"U+1116">> >>,
      <<"kopf;", <<"U+120156">> >>, <<"kscr;", <<"U+120000">> >>,
      <<"lAarr;", <<"U+8666">> >>, <<"lArr;", <<"U+8656">> >>,
      <<"lAtail;", <<"U+10523">> >>, <<"lBarr;", <<"U+10510">> >>,
      <<"lE;", <<"U+8806">> >>, <<"lEg;", <<"U+10891">> >>,
      <<"lHar;", <<"U+10594">> >>, <<"lacute;", <<"U+314">> >>,
      <<"laemptyv;", <<"U+10676">> >>, <<"lagran;", <<"U+8466">> >>,
      <<"lambda;", <<"U+955">> >>, <<"lang;", <<"U+10216">> >>,
      <<"langd;", <<"U+10641">> >>, <<"langle;", <<"U+10216">> >>,
      <<"lap;", <<"U+10885">> >>, <<"laquo", <<"U+171">> >>,
      <<"laquo;", <<"U+171">> >>, <<"larr;", <<"U+8592">> >>,
      <<"larrb;", <<"U+8676">> >>, <<"larrbfs;", <<"U+10527">> >>,
      <<"larrfs;", <<"U+10525">> >>, <<"larrhk;", <<"U+8617">> >>,
      <<"larrlp;", <<"U+8619">> >>, <<"larrpl;", <<"U+10553">> >>,
      <<"larrsim;", <<"U+10611">> >>, <<"larrtl;", <<"U+8610">> >>,
      <<"lat;", <<"U+10923">> >>, <<"latail;", <<"U+10521">> >>,
      <<"late;", <<"U+10925">> >>, <<"lates;", <<"U+10925","U+65024">> >>,
      <<"lbarr;", <<"U+10508">> >>, <<"lbbrk;", <<"U+10098">> >>,
      <<"lbrace;", <<"{">> >>, <<"lbrack;", <<"[">> >>,
      <<"lbrke;", <<"U+10635">> >>, <<"lbrksld;", <<"U+10639">> >>,
      <<"lbrkslu;", <<"U+10637">> >>, <<"lcaron;", <<"U+318">> >>,
      <<"lcedil;", <<"U+316">> >>, <<"lceil;", <<"U+8968">> >>,
      <<"lcub;", <<"{">> >>, <<"lcy;", <<"U+1083">> >>,
      <<"ldca;", <<"U+10550">> >>, <<"ldquo;", <<"U+8220">> >>,
      <<"ldquor;", <<"U+8222">> >>, <<"ldrdhar;", <<"U+10599">> >>,
      <<"ldrushar;", <<"U+10571">> >>, <<"ldsh;", <<"U+8626">> >>,
      <<"le;", <<"U+8804">> >>, <<"leftarrow;", <<"U+8592">> >>,
      <<"leftarrowtail;", <<"U+8610">> >>,
      <<"leftharpoondown;", <<"U+8637">> >>,
      <<"leftharpoonup;", <<"U+8636">> >>,
      <<"leftleftarrows;", <<"U+8647">> >>,
      <<"leftrightarrow;", <<"U+8596">> >>,
      <<"leftrightarrows;", <<"U+8646">> >>,
      <<"leftrightharpoons;", <<"U+8651">> >>,
      <<"leftrightsquigarrow;", <<"U+8621">> >>,
      <<"leftthreetimes;", <<"U+8907">> >>, <<"leg;", <<"U+8922">> >>,
      <<"leq;", <<"U+8804">> >>, <<"leqq;", <<"U+8806">> >>,
      <<"leqslant;", <<"U+10877">> >>, <<"les;", <<"U+10877">> >>,
      <<"lescc;", <<"U+10920">> >>, <<"lesdot;", <<"U+10879">> >>,
      <<"lesdoto;", <<"U+10881">> >>, <<"lesdotor;", <<"U+10883">> >>,
      <<"lesg;", <<"U+8922","U+65024">> >>, <<"lesges;", <<"U+10899">> >>,
      <<"lessapprox;", <<"U+10885">> >>, <<"lessdot;", <<"U+8918">> >>,
      <<"lesseqgtr;", <<"U+8922">> >>, <<"lesseqqgtr;", <<"U+10891">> >>,
      <<"lessgtr;", <<"U+8822">> >>, <<"lesssim;", <<"U+8818">> >>,
      <<"lfisht;", <<"U+10620">> >>, <<"lfloor;", <<"U+8970">> >>,
      <<"lfr;", <<"U+120105">> >>, <<"lg;", <<"U+8822">> >>,
      <<"lgE;", <<"U+10897">> >>, <<"lhard;", <<"U+8637">> >>,
      <<"lharu;", <<"U+8636">> >>, <<"lharul;", <<"U+10602">> >>,
      <<"lhblk;", <<"U+9604">> >>, <<"ljcy;", <<"U+1113">> >>,
      <<"ll;", <<"U+8810">> >>, <<"llarr;", <<"U+8647">> >>,
      <<"llcorner;", <<"U+8990">> >>, <<"llhard;", <<"U+10603">> >>,
      <<"lltri;", <<"U+9722">> >>, <<"lmidot;", <<"U+320">> >>,
      <<"lmoust;", <<"U+9136">> >>, <<"lmoustache;", <<"U+9136">> >>,
      <<"lnE;", <<"U+8808">> >>, <<"lnap;", <<"U+10889">> >>,
      <<"lnapprox;", <<"U+10889">> >>, <<"lne;", <<"U+10887">> >>,
      <<"lneq;", <<"U+10887">> >>, <<"lneqq;", <<"U+8808">> >>,
      <<"lnsim;", <<"U+8934">> >>, <<"loang;", <<"U+10220">> >>,
      <<"loarr;", <<"U+8701">> >>, <<"lobrk;", <<"U+10214">> >>,
      <<"longleftarrow;", <<"U+10229">> >>,
      <<"longleftrightarrow;", <<"U+10231">> >>,
      <<"longmapsto;", <<"U+10236">> >>,
      <<"longrightarrow;", <<"U+10230">> >>,
      <<"looparrowleft;", <<"U+8619">> >>,
      <<"looparrowright;", <<"U+8620">> >>, <<"lopar;", <<"U+10629">> >>,
      <<"lopf;", <<"U+120157">> >>, <<"loplus;", <<"U+10797">> >>,
      <<"lotimes;", <<"U+10804">> >>, <<"lowast;", <<"U+8727">> >>,
      <<"lowbar;", <<"_">> >>, <<"loz;", <<"U+9674">> >>,
      <<"lozenge;", <<"U+9674">> >>, <<"lozf;", <<"U+10731">> >>,
      <<"lpar;", <<"(">> >>, <<"lparlt;", <<"U+10643">> >>,
      <<"lrarr;", <<"U+8646">> >>, <<"lrcorner;", <<"U+8991">> >>,
      <<"lrhar;", <<"U+8651">> >>, <<"lrhard;", <<"U+10605">> >>,
      <<"lrm;", <<"U+8206">> >>, <<"lrtri;", <<"U+8895">> >>,
      <<"lsaquo;", <<"U+8249">> >>, <<"lscr;", <<"U+120001">> >>,
      <<"lsh;", <<"U+8624">> >>, <<"lsim;", <<"U+8818">> >>,
      <<"lsime;", <<"U+10893">> >>, <<"lsimg;", <<"U+10895">> >>,
      <<"lsqb;", <<"[">> >>, <<"lsquo;", <<"U+8216">> >>,
      <<"lsquor;", <<"U+8218">> >>, <<"lstrok;", <<"U+322">> >>,
      <<"lt", <<"<">> >>, <<"lt;", <<"<">> >>, <<"ltcc;", <<"U+10918">> >>,
      <<"ltcir;", <<"U+10873">> >>, <<"ltdot;", <<"U+8918">> >>,
      <<"lthree;", <<"U+8907">> >>, <<"ltimes;", <<"U+8905">> >>,
      <<"ltlarr;", <<"U+10614">> >>, <<"ltquest;", <<"U+10875">> >>,
      <<"ltrPar;", <<"U+10646">> >>, <<"ltri;", <<"U+9667">> >>,
      <<"ltrie;", <<"U+8884">> >>, <<"ltrif;", <<"U+9666">> >>,
      <<"lurdshar;", <<"U+10570">> >>, <<"luruhar;", <<"U+10598">> >>,
      <<"lvertneqq;", <<"U+8808","U+65024">> >>,
      <<"lvnE;", <<"U+8808","U+65024">> >>, <<"mDDot;", <<"U+8762">> >>,
      <<"macr", <<"U+175">> >>, <<"macr;", <<"U+175">> >>,
      <<"male;", <<"U+9794">> >>, <<"malt;", <<"U+10016">> >>,
      <<"maltese;", <<"U+10016">> >>, <<"map;", <<"U+8614">> >>,
      <<"mapsto;", <<"U+8614">> >>, <<"mapstodown;", <<"U+8615">> >>,
      <<"mapstoleft;", <<"U+8612">> >>, <<"mapstoup;", <<"U+8613">> >>,
      <<"marker;", <<"U+9646">> >>, <<"mcomma;", <<"U+10793">> >>,
      <<"mcy;", <<"U+1084">> >>, <<"mdash;", <<"U+8212">> >>,
      <<"measuredangle;", <<"U+8737">> >>, <<"mfr;", <<"U+120106">> >>,
      <<"mho;", <<"U+8487">> >>, <<"micro", <<"U+181">> >>,
      <<"micro;", <<"U+181">> >>, <<"mid;", <<"U+8739">> >>,
      <<"midast;", <<"*">> >>, <<"midcir;", <<"U+10992">> >>,
      <<"middot", <<"U+183">> >>, <<"middot;", <<"U+183">> >>,
      <<"minus;", <<"U+8722">> >>, <<"minusb;", <<"U+8863">> >>,
      <<"minusd;", <<"U+8760">> >>, <<"minusdu;", <<"U+10794">> >>,
      <<"mlcp;", <<"U+10971">> >>, <<"mldr;", <<"U+8230">> >>,
      <<"mnplus;", <<"U+8723">> >>, <<"models;", <<"U+8871">> >>,
      <<"mopf;", <<"U+120158">> >>, <<"mp;", <<"U+8723">> >>,
      <<"mscr;", <<"U+120002">> >>, <<"mstpos;", <<"U+8766">> >>,
      <<"mu;", <<"U+956">> >>, <<"multimap;", <<"U+8888">> >>,
      <<"mumap;", <<"U+8888">> >>, <<"nGg;", <<"U+8921","U+824">> >>,
      <<"nGt;", <<"U+8811","U+8402">> >>, <<"nGtv;", <<"U+8811","U+824">> >>,
      <<"nLeftarrow;", <<"U+8653">> >>, <<"nLeftrightarrow;", <<"U+8654">> >>,
      <<"nLl;", <<"U+8920","U+824">> >>, <<"nLt;", <<"U+8810","U+8402">> >>,
      <<"nLtv;", <<"U+8810","U+824">> >>, <<"nRightarrow;", <<"U+8655">> >>,
      <<"nVDash;", <<"U+8879">> >>, <<"nVdash;", <<"U+8878">> >>,
      <<"nabla;", <<"U+8711">> >>, <<"nacute;", <<"U+324">> >>,
      <<"nang;", <<"U+8736","U+8402">> >>, <<"nap;", <<"U+8777">> >>,
      <<"napE;", <<"U+10864","U+824">> >>,
      <<"napid;", <<"U+8779","U+824">> >>, <<"napos;", <<"U+329">> >>,
      <<"napprox;", <<"U+8777">> >>, <<"natur;", <<"U+9838">> >>,
      <<"natural;", <<"U+9838">> >>, <<"naturals;", <<"U+8469">> >>,
      <<"nbsp", <<"U+160">> >>, <<"nbsp;", <<"U+160">> >>,
      <<"nbump;", <<"U+8782","U+824">> >>,
      <<"nbumpe;", <<"U+8783","U+824">> >>, <<"ncap;", <<"U+10819">> >>,
      <<"ncaron;", <<"U+328">> >>, <<"ncedil;", <<"U+326">> >>,
      <<"ncong;", <<"U+8775">> >>, <<"ncongdot;", <<"U+10861","U+824">> >>,
      <<"ncup;", <<"U+10818">> >>, <<"ncy;", <<"U+1085">> >>,
      <<"ndash;", <<"U+8211">> >>, <<"ne;", <<"U+8800">> >>,
      <<"neArr;", <<"U+8663">> >>, <<"nearhk;", <<"U+10532">> >>,
      <<"nearr;", <<"U+8599">> >>, <<"nearrow;", <<"U+8599">> >>,
      <<"nedot;", <<"U+8784","U+824">> >>, <<"nequiv;", <<"U+8802">> >>,
      <<"nesear;", <<"U+10536">> >>, <<"nesim;", <<"U+8770","U+824">> >>,
      <<"nexist;", <<"U+8708">> >>, <<"nexists;", <<"U+8708">> >>,
      <<"nfr;", <<"U+120107">> >>, <<"ngE;", <<"U+8807","U+824">> >>,
      <<"nge;", <<"U+8817">> >>, <<"ngeq;", <<"U+8817">> >>,
      <<"ngeqq;", <<"U+8807","U+824">> >>,
      <<"ngeqslant;", <<"U+10878","U+824">> >>,
      <<"nges;", <<"U+10878","U+824">> >>, <<"ngsim;", <<"U+8821">> >>,
      <<"ngt;", <<"U+8815">> >>, <<"ngtr;", <<"U+8815">> >>,
      <<"nhArr;", <<"U+8654">> >>, <<"nharr;", <<"U+8622">> >>,
      <<"nhpar;", <<"U+10994">> >>, <<"ni;", <<"U+8715">> >>,
      <<"nis;", <<"U+8956">> >>, <<"nisd;", <<"U+8954">> >>,
      <<"niv;", <<"U+8715">> >>, <<"njcy;", <<"U+1114">> >>,
      <<"nlArr;", <<"U+8653">> >>, <<"nlE;", <<"U+8806","U+824">> >>,
      <<"nlarr;", <<"U+8602">> >>, <<"nldr;", <<"U+8229">> >>,
      <<"nle;", <<"U+8816">> >>, <<"nleftarrow;", <<"U+8602">> >>,
      <<"nleftrightarrow;", <<"U+8622">> >>, <<"nleq;", <<"U+8816">> >>,
      <<"nleqq;", <<"U+8806","U+824">> >>,
      <<"nleqslant;", <<"U+10877","U+824">> >>,
      <<"nles;", <<"U+10877","U+824">> >>, <<"nless;", <<"U+8814">> >>,
      <<"nlsim;", <<"U+8820">> >>, <<"nlt;", <<"U+8814">> >>,
      <<"nltri;", <<"U+8938">> >>, <<"nltrie;", <<"U+8940">> >>,
      <<"nmid;", <<"U+8740">> >>, <<"nopf;", <<"U+120159">> >>,
      <<"not", <<"U+172">> >>, <<"not;", <<"U+172">> >>,
      <<"notin;", <<"U+8713">> >>, <<"notinE;", <<"U+8953","U+824">> >>,
      <<"notindot;", <<"U+8949","U+824">> >>, <<"notinva;", <<"U+8713">> >>,
      <<"notinvb;", <<"U+8951">> >>, <<"notinvc;", <<"U+8950">> >>,
      <<"notni;", <<"U+8716">> >>, <<"notniva;", <<"U+8716">> >>,
      <<"notnivb;", <<"U+8958">> >>, <<"notnivc;", <<"U+8957">> >>,
      <<"npar;", <<"U+8742">> >>, <<"nparallel;", <<"U+8742">> >>,
      <<"nparsl;", <<"U+11005","U+8421">> >>,
      <<"npart;", <<"U+8706","U+824">> >>, <<"npolint;", <<"U+10772">> >>,
      <<"npr;", <<"U+8832">> >>, <<"nprcue;", <<"U+8928">> >>,
      <<"npre;", <<"U+10927","U+824">> >>, <<"nprec;", <<"U+8832">> >>,
      <<"npreceq;", <<"U+10927","U+824">> >>, <<"nrArr;", <<"U+8655">> >>,
      <<"nrarr;", <<"U+8603">> >>, <<"nrarrc;", <<"U+10547","U+824">> >>,
      <<"nrarrw;", <<"U+8605","U+824">> >>, <<"nrightarrow;", <<"U+8603">> >>,
      <<"nrtri;", <<"U+8939">> >>, <<"nrtrie;", <<"U+8941">> >>,
      <<"nsc;", <<"U+8833">> >>, <<"nsccue;", <<"U+8929">> >>,
      <<"nsce;", <<"U+10928","U+824">> >>, <<"nscr;", <<"U+120003">> >>,
      <<"nshortmid;", <<"U+8740">> >>, <<"nshortparallel;", <<"U+8742">> >>,
      <<"nsim;", <<"U+8769">> >>, <<"nsime;", <<"U+8772">> >>,
      <<"nsimeq;", <<"U+8772">> >>, <<"nsmid;", <<"U+8740">> >>,
      <<"nspar;", <<"U+8742">> >>, <<"nsqsube;", <<"U+8930">> >>,
      <<"nsqsupe;", <<"U+8931">> >>, <<"nsub;", <<"U+8836">> >>,
      <<"nsubE;", <<"U+10949","U+824">> >>, <<"nsube;", <<"U+8840">> >>,
      <<"nsubset;", <<"U+8834","U+8402">> >>, <<"nsubseteq;", <<"U+8840">> >>,
      <<"nsubseteqq;", <<"U+10949","U+824">> >>, <<"nsucc;", <<"U+8833">> >>,
      <<"nsucceq;", <<"U+10928","U+824">> >>, <<"nsup;", <<"U+8837">> >>,
      <<"nsupE;", <<"U+10950","U+824">> >>, <<"nsupe;", <<"U+8841">> >>,
      <<"nsupset;", <<"U+8835","U+8402">> >>, <<"nsupseteq;", <<"U+8841">> >>,
      <<"nsupseteqq;", <<"U+10950","U+824">> >>, <<"ntgl;", <<"U+8825">> >>,
      <<"ntilde", <<"U+241">> >>, <<"ntilde;", <<"U+241">> >>,
      <<"ntlg;", <<"U+8824">> >>, <<"ntriangleleft;", <<"U+8938">> >>,
      <<"ntrianglelefteq;", <<"U+8940">> >>,
      <<"ntriangleright;", <<"U+8939">> >>,
      <<"ntrianglerighteq;", <<"U+8941">> >>, <<"nu;", <<"U+957">> >>,
      <<"num;", <<"#">> >>, <<"numero;", <<"U+8470">> >>,
      <<"numsp;", <<"U+8199">> >>, <<"nvDash;", <<"U+8877">> >>,
      <<"nvHarr;", <<"U+10500">> >>, <<"nvap;", <<"U+8781","U+8402">> >>,
      <<"nvdash;", <<"U+8876">> >>, <<"nvge;", <<"U+8805","U+8402">> >>,
      <<"nvgt;", <<">","U+8402">> >>, <<"nvinfin;", <<"U+10718">> >>,
      <<"nvlArr;", <<"U+10498">> >>, <<"nvle;", <<"U+8804","U+8402">> >>,
      <<"nvlt;", <<"<","U+8402">> >>, <<"nvltrie;", <<"U+8884","U+8402">> >>,
      <<"nvrArr;", <<"U+10499">> >>, <<"nvrtrie;", <<"U+8885","U+8402">> >>,
      <<"nvsim;", <<"U+8764","U+8402">> >>, <<"nwArr;", <<"U+8662">> >>,
      <<"nwarhk;", <<"U+10531">> >>, <<"nwarr;", <<"U+8598">> >>,
      <<"nwarrow;", <<"U+8598">> >>, <<"nwnear;", <<"U+10535">> >>,
      <<"oS;", <<"U+9416">> >>, <<"oacute", <<"U+243">> >>,
      <<"oacute;", <<"U+243">> >>, <<"oast;", <<"U+8859">> >>,
      <<"ocir;", <<"U+8858">> >>, <<"ocirc", <<"U+244">> >>,
      <<"ocirc;", <<"U+244">> >>, <<"ocy;", <<"U+1086">> >>,
      <<"odash;", <<"U+8861">> >>, <<"odblac;", <<"U+337">> >>,
      <<"odiv;", <<"U+10808">> >>, <<"odot;", <<"U+8857">> >>,
      <<"odsold;", <<"U+10684">> >>, <<"oelig;", <<"U+339">> >>,
      <<"ofcir;", <<"U+10687">> >>, <<"ofr;", <<"U+120108">> >>,
      <<"ogon;", <<"U+731">> >>, <<"ograve", <<"U+242">> >>,
      <<"ograve;", <<"U+242">> >>, <<"ogt;", <<"U+10689">> >>,
      <<"ohbar;", <<"U+10677">> >>, <<"ohm;", <<"U+937">> >>,
      <<"oint;", <<"U+8750">> >>, <<"olarr;", <<"U+8634">> >>,
      <<"olcir;", <<"U+10686">> >>, <<"olcross;", <<"U+10683">> >>,
      <<"oline;", <<"U+8254">> >>, <<"olt;", <<"U+10688">> >>,
      <<"omacr;", <<"U+333">> >>, <<"omega;", <<"U+969">> >>,
      <<"omicron;", <<"U+959">> >>, <<"omid;", <<"U+10678">> >>,
      <<"ominus;", <<"U+8854">> >>, <<"oopf;", <<"U+120160">> >>,
      <<"opar;", <<"U+10679">> >>, <<"operp;", <<"U+10681">> >>,
      <<"oplus;", <<"U+8853">> >>, <<"or;", <<"U+8744">> >>,
      <<"orarr;", <<"U+8635">> >>, <<"ord;", <<"U+10845">> >>,
      <<"order;", <<"U+8500">> >>, <<"orderof;", <<"U+8500">> >>,
      <<"ordf", <<"U+170">> >>, <<"ordf;", <<"U+170">> >>,
      <<"ordm", <<"U+186">> >>, <<"ordm;", <<"U+186">> >>,
      <<"origof;", <<"U+8886">> >>, <<"oror;", <<"U+10838">> >>,
      <<"orslope;", <<"U+10839">> >>, <<"orv;", <<"U+10843">> >>,
      <<"oscr;", <<"U+8500">> >>, <<"oslash", <<"U+248">> >>,
      <<"oslash;", <<"U+248">> >>, <<"osol;", <<"U+8856">> >>,
      <<"otilde", <<"U+245">> >>, <<"otilde;", <<"U+245">> >>,
      <<"otimes;", <<"U+8855">> >>, <<"otimesas;", <<"U+10806">> >>,
      <<"ouml", <<"U+246">> >>, <<"ouml;", <<"U+246">> >>,
      <<"ovbar;", <<"U+9021">> >>, <<"par;", <<"U+8741">> >>,
      <<"para", <<"U+182">> >>, <<"para;", <<"U+182">> >>,
      <<"parallel;", <<"U+8741">> >>, <<"parsim;", <<"U+10995">> >>,
      <<"parsl;", <<"U+11005">> >>, <<"part;", <<"U+8706">> >>,
      <<"pcy;", <<"U+1087">> >>, <<"percnt;", <<"%">> >>,
      <<"period;", <<".">> >>, <<"permil;", <<"U+8240">> >>,
      <<"perp;", <<"U+8869">> >>, <<"pertenk;", <<"U+8241">> >>,
      <<"pfr;", <<"U+120109">> >>, <<"phi;", <<"U+966">> >>,
      <<"phiv;", <<"U+981">> >>, <<"phmmat;", <<"U+8499">> >>,
      <<"phone;", <<"U+9742">> >>, <<"pi;", <<"U+960">> >>,
      <<"pitchfork;", <<"U+8916">> >>, <<"piv;", <<"U+982">> >>,
      <<"planck;", <<"U+8463">> >>, <<"planckh;", <<"U+8462">> >>,
      <<"plankv;", <<"U+8463">> >>, <<"plus;", <<"+">> >>,
      <<"plusacir;", <<"U+10787">> >>, <<"plusb;", <<"U+8862">> >>,
      <<"pluscir;", <<"U+10786">> >>, <<"plusdo;", <<"U+8724">> >>,
      <<"plusdu;", <<"U+10789">> >>, <<"pluse;", <<"U+10866">> >>,
      <<"plusmn", <<"U+177">> >>, <<"plusmn;", <<"U+177">> >>,
      <<"plussim;", <<"U+10790">> >>, <<"plustwo;", <<"U+10791">> >>,
      <<"pm;", <<"U+177">> >>, <<"pointint;", <<"U+10773">> >>,
      <<"popf;", <<"U+120161">> >>, <<"pound", <<"U+163">> >>,
      <<"pound;", <<"U+163">> >>, <<"pr;", <<"U+8826">> >>,
      <<"prE;", <<"U+10931">> >>, <<"prap;", <<"U+10935">> >>,
      <<"prcue;", <<"U+8828">> >>, <<"pre;", <<"U+10927">> >>,
      <<"prec;", <<"U+8826">> >>, <<"precapprox;", <<"U+10935">> >>,
      <<"preccurlyeq;", <<"U+8828">> >>, <<"preceq;", <<"U+10927">> >>,
      <<"precnapprox;", <<"U+10937">> >>, <<"precneqq;", <<"U+10933">> >>,
      <<"precnsim;", <<"U+8936">> >>, <<"precsim;", <<"U+8830">> >>,
      <<"prime;", <<"U+8242">> >>, <<"primes;", <<"U+8473">> >>,
      <<"prnE;", <<"U+10933">> >>, <<"prnap;", <<"U+10937">> >>,
      <<"prnsim;", <<"U+8936">> >>, <<"prod;", <<"U+8719">> >>,
      <<"profalar;", <<"U+9006">> >>, <<"profline;", <<"U+8978">> >>,
      <<"profsurf;", <<"U+8979">> >>, <<"prop;", <<"U+8733">> >>,
      <<"propto;", <<"U+8733">> >>, <<"prsim;", <<"U+8830">> >>,
      <<"prurel;", <<"U+8880">> >>, <<"pscr;", <<"U+120005">> >>,
      <<"psi;", <<"U+968">> >>, <<"puncsp;", <<"U+8200">> >>,
      <<"qfr;", <<"U+120110">> >>, <<"qint;", <<"U+10764">> >>,
      <<"qopf;", <<"U+120162">> >>, <<"qprime;", <<"U+8279">> >>,
      <<"qscr;", <<"U+120006">> >>, <<"quaternions;", <<"U+8461">> >>,
      <<"quatint;", <<"U+10774">> >>, <<"quest;", <<"?">> >>,
      <<"questeq;", <<"U+8799">> >>, <<"quot", <<"\"">> >>,
      <<"quot;", <<"\"">> >>, <<"rAarr;", <<"U+8667">> >>,
      <<"rArr;", <<"U+8658">> >>, <<"rAtail;", <<"U+10524">> >>,
      <<"rBarr;", <<"U+10511">> >>, <<"rHar;", <<"U+10596">> >>,
      <<"race;", <<"U+8765","U+817">> >>, <<"racute;", <<"U+341">> >>,
      <<"radic;", <<"U+8730">> >>, <<"raemptyv;", <<"U+10675">> >>,
      <<"rang;", <<"U+10217">> >>, <<"rangd;", <<"U+10642">> >>,
      <<"range;", <<"U+10661">> >>, <<"rangle;", <<"U+10217">> >>,
      <<"raquo", <<"U+187">> >>, <<"raquo;", <<"U+187">> >>,
      <<"rarr;", <<"U+8594">> >>, <<"rarrap;", <<"U+10613">> >>,
      <<"rarrb;", <<"U+8677">> >>, <<"rarrbfs;", <<"U+10528">> >>,
      <<"rarrc;", <<"U+10547">> >>, <<"rarrfs;", <<"U+10526">> >>,
      <<"rarrhk;", <<"U+8618">> >>, <<"rarrlp;", <<"U+8620">> >>,
      <<"rarrpl;", <<"U+10565">> >>, <<"rarrsim;", <<"U+10612">> >>,
      <<"rarrtl;", <<"U+8611">> >>, <<"rarrw;", <<"U+8605">> >>,
      <<"ratail;", <<"U+10522">> >>, <<"ratio;", <<"U+8758">> >>,
      <<"rationals;", <<"U+8474">> >>, <<"rbarr;", <<"U+10509">> >>,
      <<"rbbrk;", <<"U+10099">> >>, <<"rbrace;", <<"}">> >>,
      <<"rbrack;", <<"]">> >>, <<"rbrke;", <<"U+10636">> >>,
      <<"rbrksld;", <<"U+10638">> >>, <<"rbrkslu;", <<"U+10640">> >>,
      <<"rcaron;", <<"U+345">> >>, <<"rcedil;", <<"U+343">> >>,
      <<"rceil;", <<"U+8969">> >>, <<"rcub;", <<"}">> >>,
      <<"rcy;", <<"U+1088">> >>, <<"rdca;", <<"U+10551">> >>,
      <<"rdldhar;", <<"U+10601">> >>, <<"rdquo;", <<"U+8221">> >>,
      <<"rdquor;", <<"U+8221">> >>, <<"rdsh;", <<"U+8627">> >>,
      <<"real;", <<"U+8476">> >>, <<"realine;", <<"U+8475">> >>,
      <<"realpart;", <<"U+8476">> >>, <<"reals;", <<"U+8477">> >>,
      <<"rect;", <<"U+9645">> >>, <<"reg", <<"U+174">> >>,
      <<"reg;", <<"U+174">> >>, <<"rfisht;", <<"U+10621">> >>,
      <<"rfloor;", <<"U+8971">> >>, <<"rfr;", <<"U+120111">> >>,
      <<"rhard;", <<"U+8641">> >>, <<"rharu;", <<"U+8640">> >>,
      <<"rharul;", <<"U+10604">> >>, <<"rho;", <<"U+961">> >>,
      <<"rhov;", <<"U+1009">> >>, <<"rightarrow;", <<"U+8594">> >>,
      <<"rightarrowtail;", <<"U+8611">> >>,
      <<"rightharpoondown;", <<"U+8641">> >>,
      <<"rightharpoonup;", <<"U+8640">> >>,
      <<"rightleftarrows;", <<"U+8644">> >>,
      <<"rightleftharpoons;", <<"U+8652">> >>,
      <<"rightrightarrows;", <<"U+8649">> >>,
      <<"rightsquigarrow;", <<"U+8605">> >>,
      <<"rightthreetimes;", <<"U+8908">> >>, <<"ring;", <<"U+730">> >>,
      <<"risingdotseq;", <<"U+8787">> >>, <<"rlarr;", <<"U+8644">> >>,
      <<"rlhar;", <<"U+8652">> >>, <<"rlm;", <<"U+8207">> >>,
      <<"rmoust;", <<"U+9137">> >>, <<"rmoustache;", <<"U+9137">> >>,
      <<"rnmid;", <<"U+10990">> >>, <<"roang;", <<"U+10221">> >>,
      <<"roarr;", <<"U+8702">> >>, <<"robrk;", <<"U+10215">> >>,
      <<"ropar;", <<"U+10630">> >>, <<"ropf;", <<"U+120163">> >>,
      <<"roplus;", <<"U+10798">> >>, <<"rotimes;", <<"U+10805">> >>,
      <<"rpar;", <<")">> >>, <<"rpargt;", <<"U+10644">> >>,
      <<"rppolint;", <<"U+10770">> >>, <<"rrarr;", <<"U+8649">> >>,
      <<"rsaquo;", <<"U+8250">> >>, <<"rscr;", <<"U+120007">> >>,
      <<"rsh;", <<"U+8625">> >>, <<"rsqb;", <<"]">> >>,
      <<"rsquo;", <<"U+8217">> >>, <<"rsquor;", <<"U+8217">> >>,
      <<"rthree;", <<"U+8908">> >>, <<"rtimes;", <<"U+8906">> >>,
      <<"rtri;", <<"U+9657">> >>, <<"rtrie;", <<"U+8885">> >>,
      <<"rtrif;", <<"U+9656">> >>, <<"rtriltri;", <<"U+10702">> >>,
      <<"ruluhar;", <<"U+10600">> >>, <<"rx;", <<"U+8478">> >>,
      <<"sacute;", <<"U+347">> >>, <<"sbquo;", <<"U+8218">> >>,
      <<"sc;", <<"U+8827">> >>, <<"scE;", <<"U+10932">> >>,
      <<"scap;", <<"U+10936">> >>, <<"scaron;", <<"U+353">> >>,
      <<"sccue;", <<"U+8829">> >>, <<"sce;", <<"U+10928">> >>,
      <<"scedil;", <<"U+351">> >>, <<"scirc;", <<"U+349">> >>,
      <<"scnE;", <<"U+10934">> >>, <<"scnap;", <<"U+10938">> >>,
      <<"scnsim;", <<"U+8937">> >>, <<"scpolint;", <<"U+10771">> >>,
      <<"scsim;", <<"U+8831">> >>, <<"scy;", <<"U+1089">> >>,
      <<"sdot;", <<"U+8901">> >>, <<"sdotb;", <<"U+8865">> >>,
      <<"sdote;", <<"U+10854">> >>, <<"seArr;", <<"U+8664">> >>,
      <<"searhk;", <<"U+10533">> >>, <<"searr;", <<"U+8600">> >>,
      <<"searrow;", <<"U+8600">> >>, <<"sect", <<"U+167">> >>,
      <<"sect;", <<"U+167">> >>, <<"semi;", <<";">> >>,
      <<"seswar;", <<"U+10537">> >>, <<"setminus;", <<"U+8726">> >>,
      <<"setmn;", <<"U+8726">> >>, <<"sext;", <<"U+10038">> >>,
      <<"sfr;", <<"U+120112">> >>, <<"sfrown;", <<"U+8994">> >>,
      <<"sharp;", <<"U+9839">> >>, <<"shchcy;", <<"U+1097">> >>,
      <<"shcy;", <<"U+1096">> >>, <<"shortmid;", <<"U+8739">> >>,
      <<"shortparallel;", <<"U+8741">> >>, <<"shy", <<"U+173">> >>,
      <<"shy;", <<"U+173">> >>, <<"sigma;", <<"U+963">> >>,
      <<"sigmaf;", <<"U+962">> >>, <<"sigmav;", <<"U+962">> >>,
      <<"sim;", <<"U+8764">> >>, <<"simdot;", <<"U+10858">> >>,
      <<"sime;", <<"U+8771">> >>, <<"simeq;", <<"U+8771">> >>,
      <<"simg;", <<"U+10910">> >>, <<"simgE;", <<"U+10912">> >>,
      <<"siml;", <<"U+10909">> >>, <<"simlE;", <<"U+10911">> >>,
      <<"simne;", <<"U+8774">> >>, <<"simplus;", <<"U+10788">> >>,
      <<"simrarr;", <<"U+10610">> >>, <<"slarr;", <<"U+8592">> >>,
      <<"smallsetminus;", <<"U+8726">> >>, <<"smashp;", <<"U+10803">> >>,
      <<"smeparsl;", <<"U+10724">> >>, <<"smid;", <<"U+8739">> >>,
      <<"smile;", <<"U+8995">> >>, <<"smt;", <<"U+10922">> >>,
      <<"smte;", <<"U+10924">> >>, <<"smtes;", <<"U+10924","U+65024">> >>,
      <<"softcy;", <<"U+1100">> >>, <<"sol;", <<"/">> >>,
      <<"solb;", <<"U+10692">> >>, <<"solbar;", <<"U+9023">> >>,
      <<"sopf;", <<"U+120164">> >>, <<"spades;", <<"U+9824">> >>,
      <<"spadesuit;", <<"U+9824">> >>, <<"spar;", <<"U+8741">> >>,
      <<"sqcap;", <<"U+8851">> >>, <<"sqcaps;", <<"U+8851","U+65024">> >>,
      <<"sqcup;", <<"U+8852">> >>, <<"sqcups;", <<"U+8852","U+65024">> >>,
      <<"sqsub;", <<"U+8847">> >>, <<"sqsube;", <<"U+8849">> >>,
      <<"sqsubset;", <<"U+8847">> >>, <<"sqsubseteq;", <<"U+8849">> >>,
      <<"sqsup;", <<"U+8848">> >>, <<"sqsupe;", <<"U+8850">> >>,
      <<"sqsupset;", <<"U+8848">> >>, <<"sqsupseteq;", <<"U+8850">> >>,
      <<"squ;", <<"U+9633">> >>, <<"square;", <<"U+9633">> >>,
      <<"squarf;", <<"U+9642">> >>, <<"squf;", <<"U+9642">> >>,
      <<"srarr;", <<"U+8594">> >>, <<"sscr;", <<"U+120008">> >>,
      <<"ssetmn;", <<"U+8726">> >>, <<"ssmile;", <<"U+8995">> >>,
      <<"sstarf;", <<"U+8902">> >>, <<"star;", <<"U+9734">> >>,
      <<"starf;", <<"U+9733">> >>, <<"straightepsilon;", <<"U+1013">> >>,
      <<"straightphi;", <<"U+981">> >>, <<"strns;", <<"U+175">> >>,
      <<"sub;", <<"U+8834">> >>, <<"subE;", <<"U+10949">> >>,
      <<"subdot;", <<"U+10941">> >>, <<"sube;", <<"U+8838">> >>,
      <<"subedot;", <<"U+10947">> >>, <<"submult;", <<"U+10945">> >>,
      <<"subnE;", <<"U+10955">> >>, <<"subne;", <<"U+8842">> >>,
      <<"subplus;", <<"U+10943">> >>, <<"subrarr;", <<"U+10617">> >>,
      <<"subset;", <<"U+8834">> >>, <<"subseteq;", <<"U+8838">> >>,
      <<"subseteqq;", <<"U+10949">> >>, <<"subsetneq;", <<"U+8842">> >>,
      <<"subsetneqq;", <<"U+10955">> >>, <<"subsim;", <<"U+10951">> >>,
      <<"subsub;", <<"U+10965">> >>, <<"subsup;", <<"U+10963">> >>,
      <<"succ;", <<"U+8827">> >>, <<"succapprox;", <<"U+10936">> >>,
      <<"succcurlyeq;", <<"U+8829">> >>, <<"succeq;", <<"U+10928">> >>,
      <<"succnapprox;", <<"U+10938">> >>, <<"succneqq;", <<"U+10934">> >>,
      <<"succnsim;", <<"U+8937">> >>, <<"succsim;", <<"U+8831">> >>,
      <<"sum;", <<"U+8721">> >>, <<"sung;", <<"U+9834">> >>,
      <<"sup1", <<"U+185">> >>, <<"sup1;", <<"U+185">> >>,
      <<"sup2", <<"U+178">> >>, <<"sup2;", <<"U+178">> >>,
      <<"sup3", <<"U+179">> >>, <<"sup3;", <<"U+179">> >>,
      <<"sup;", <<"U+8835">> >>, <<"supE;", <<"U+10950">> >>,
      <<"supdot;", <<"U+10942">> >>, <<"supdsub;", <<"U+10968">> >>,
      <<"supe;", <<"U+8839">> >>, <<"supedot;", <<"U+10948">> >>,
      <<"suphsol;", <<"U+10185">> >>, <<"suphsub;", <<"U+10967">> >>,
      <<"suplarr;", <<"U+10619">> >>, <<"supmult;", <<"U+10946">> >>,
      <<"supnE;", <<"U+10956">> >>, <<"supne;", <<"U+8843">> >>,
      <<"supplus;", <<"U+10944">> >>, <<"supset;", <<"U+8835">> >>,
      <<"supseteq;", <<"U+8839">> >>, <<"supseteqq;", <<"U+10950">> >>,
      <<"supsetneq;", <<"U+8843">> >>, <<"supsetneqq;", <<"U+10956">> >>,
      <<"supsim;", <<"U+10952">> >>, <<"supsub;", <<"U+10964">> >>,
      <<"supsup;", <<"U+10966">> >>, <<"swArr;", <<"U+8665">> >>,
      <<"swarhk;", <<"U+10534">> >>, <<"swarr;", <<"U+8601">> >>,
      <<"swarrow;", <<"U+8601">> >>, <<"swnwar;", <<"U+10538">> >>,
      <<"szlig", <<"U+223">> >>, <<"szlig;", <<"U+223">> >>,
      <<"target;", <<"U+8982">> >>, <<"tau;", <<"U+964">> >>,
      <<"tbrk;", <<"U+9140">> >>, <<"tcaron;", <<"U+357">> >>,
      <<"tcedil;", <<"U+355">> >>, <<"tcy;", <<"U+1090">> >>,
      <<"tdot;", <<"U+8411">> >>, <<"telrec;", <<"U+8981">> >>,
      <<"tfr;", <<"U+120113">> >>, <<"there4;", <<"U+8756">> >>,
      <<"therefore;", <<"U+8756">> >>, <<"theta;", <<"U+952">> >>,
      <<"thetasym;", <<"U+977">> >>, <<"thetav;", <<"U+977">> >>,
      <<"thickapprox;", <<"U+8776">> >>, <<"thicksim;", <<"U+8764">> >>,
      <<"thinsp;", <<"U+8201">> >>, <<"thkap;", <<"U+8776">> >>,
      <<"thksim;", <<"U+8764">> >>, <<"thorn", <<"U+254">> >>,
      <<"thorn;", <<"U+254">> >>, <<"tilde;", <<"U+732">> >>,
      <<"times", <<"U+215">> >>, <<"times;", <<"U+215">> >>,
      <<"timesb;", <<"U+8864">> >>, <<"timesbar;", <<"U+10801">> >>,
      <<"timesd;", <<"U+10800">> >>, <<"tint;", <<"U+8749">> >>,
      <<"toea;", <<"U+10536">> >>, <<"top;", <<"U+8868">> >>,
      <<"topbot;", <<"U+9014">> >>, <<"topcir;", <<"U+10993">> >>,
      <<"topf;", <<"U+120165">> >>, <<"topfork;", <<"U+10970">> >>,
      <<"tosa;", <<"U+10537">> >>, <<"tprime;", <<"U+8244">> >>,
      <<"trade;", <<"U+8482">> >>, <<"triangle;", <<"U+9653">> >>,
      <<"triangledown;", <<"U+9663">> >>, <<"triangleleft;", <<"U+9667">> >>,
      <<"trianglelefteq;", <<"U+8884">> >>, <<"triangleq;", <<"U+8796">> >>,
      <<"triangleright;", <<"U+9657">> >>,
      <<"trianglerighteq;", <<"U+8885">> >>, <<"tridot;", <<"U+9708">> >>,
      <<"trie;", <<"U+8796">> >>, <<"triminus;", <<"U+10810">> >>,
      <<"triplus;", <<"U+10809">> >>, <<"trisb;", <<"U+10701">> >>,
      <<"tritime;", <<"U+10811">> >>, <<"trpezium;", <<"U+9186">> >>,
      <<"tscr;", <<"U+120009">> >>, <<"tscy;", <<"U+1094">> >>,
      <<"tshcy;", <<"U+1115">> >>, <<"tstrok;", <<"U+359">> >>,
      <<"twixt;", <<"U+8812">> >>, <<"twoheadleftarrow;", <<"U+8606">> >>,
      <<"twoheadrightarrow;", <<"U+8608">> >>, <<"uArr;", <<"U+8657">> >>,
      <<"uHar;", <<"U+10595">> >>, <<"uacute", <<"U+250">> >>,
      <<"uacute;", <<"U+250">> >>, <<"uarr;", <<"U+8593">> >>,
      <<"ubrcy;", <<"U+1118">> >>, <<"ubreve;", <<"U+365">> >>,
      <<"ucirc", <<"U+251">> >>, <<"ucirc;", <<"U+251">> >>,
      <<"ucy;", <<"U+1091">> >>, <<"udarr;", <<"U+8645">> >>,
      <<"udblac;", <<"U+369">> >>, <<"udhar;", <<"U+10606">> >>,
      <<"ufisht;", <<"U+10622">> >>, <<"ufr;", <<"U+120114">> >>,
      <<"ugrave", <<"U+249">> >>, <<"ugrave;", <<"U+249">> >>,
      <<"uharl;", <<"U+8639">> >>, <<"uharr;", <<"U+8638">> >>,
      <<"uhblk;", <<"U+9600">> >>, <<"ulcorn;", <<"U+8988">> >>,
      <<"ulcorner;", <<"U+8988">> >>, <<"ulcrop;", <<"U+8975">> >>,
      <<"ultri;", <<"U+9720">> >>, <<"umacr;", <<"U+363">> >>,
      <<"uml", <<"U+168">> >>, <<"uml;", <<"U+168">> >>,
      <<"uogon;", <<"U+371">> >>, <<"uopf;", <<"U+120166">> >>,
      <<"uparrow;", <<"U+8593">> >>, <<"updownarrow;", <<"U+8597">> >>,
      <<"upharpoonleft;", <<"U+8639">> >>,
      <<"upharpoonright;", <<"U+8638">> >>, <<"uplus;", <<"U+8846">> >>,
      <<"upsi;", <<"U+965">> >>, <<"upsih;", <<"U+978">> >>,
      <<"upsilon;", <<"U+965">> >>, <<"upuparrows;", <<"U+8648">> >>,
      <<"urcorn;", <<"U+8989">> >>, <<"urcorner;", <<"U+8989">> >>,
      <<"urcrop;", <<"U+8974">> >>, <<"uring;", <<"U+367">> >>,
      <<"urtri;", <<"U+9721">> >>, <<"uscr;", <<"U+120010">> >>,
      <<"utdot;", <<"U+8944">> >>, <<"utilde;", <<"U+361">> >>,
      <<"utri;", <<"U+9653">> >>, <<"utrif;", <<"U+9652">> >>,
      <<"uuarr;", <<"U+8648">> >>, <<"uuml", <<"U+252">> >>,
      <<"uuml;", <<"U+252">> >>, <<"uwangle;", <<"U+10663">> >>,
      <<"vArr;", <<"U+8661">> >>, <<"vBar;", <<"U+10984">> >>,
      <<"vBarv;", <<"U+10985">> >>, <<"vDash;", <<"U+8872">> >>,
      <<"vangrt;", <<"U+10652">> >>, <<"varepsilon;", <<"U+1013">> >>,
      <<"varkappa;", <<"U+1008">> >>, <<"varnothing;", <<"U+8709">> >>,
      <<"varphi;", <<"U+981">> >>, <<"varpi;", <<"U+982">> >>,
      <<"varpropto;", <<"U+8733">> >>, <<"varr;", <<"U+8597">> >>,
      <<"varrho;", <<"U+1009">> >>, <<"varsigma;", <<"U+962">> >>,
      <<"varsubsetneq;", <<"U+8842","U+65024">> >>,
      <<"varsubsetneqq;", <<"U+10955","U+65024">> >>,
      <<"varsupsetneq;", <<"U+8843","U+65024">> >>,
      <<"varsupsetneqq;", <<"U+10956","U+65024">> >>,
      <<"vartheta;", <<"U+977">> >>, <<"vartriangleleft;", <<"U+8882">> >>,
      <<"vartriangleright;", <<"U+8883">> >>, <<"vcy;", <<"U+1074">> >>,
      <<"vdash;", <<"U+8866">> >>, <<"vee;", <<"U+8744">> >>,
      <<"veebar;", <<"U+8891">> >>, <<"veeeq;", <<"U+8794">> >>,
      <<"vellip;", <<"U+8942">> >>, <<"verbar;", <<"|">> >>,
      <<"vert;", <<"|">> >>, <<"vfr;", <<"U+120115">> >>,
      <<"vltri;", <<"U+8882">> >>, <<"vnsub;", <<"U+8834","U+8402">> >>,
      <<"vnsup;", <<"U+8835","U+8402">> >>, <<"vopf;", <<"U+120167">> >>,
      <<"vprop;", <<"U+8733">> >>, <<"vrtri;", <<"U+8883">> >>,
      <<"vscr;", <<"U+120011">> >>, <<"vsubnE;", <<"U+10955","U+65024">> >>,
      <<"vsubne;", <<"U+8842","U+65024">> >>,
      <<"vsupnE;", <<"U+10956","U+65024">> >>,
      <<"vsupne;", <<"U+8843","U+65024">> >>, <<"vzigzag;", <<"U+10650">> >>,
      <<"wcirc;", <<"U+373">> >>, <<"wedbar;", <<"U+10847">> >>,
      <<"wedge;", <<"U+8743">> >>, <<"wedgeq;", <<"U+8793">> >>,
      <<"weierp;", <<"U+8472">> >>, <<"wfr;", <<"U+120116">> >>,
      <<"wopf;", <<"U+120168">> >>, <<"wp;", <<"U+8472">> >>,
      <<"wr;", <<"U+8768">> >>, <<"wreath;", <<"U+8768">> >>,
      <<"wscr;", <<"U+120012">> >>, <<"xcap;", <<"U+8898">> >>,
      <<"xcirc;", <<"U+9711">> >>, <<"xcup;", <<"U+8899">> >>,
      <<"xdtri;", <<"U+9661">> >>, <<"xfr;", <<"U+120117">> >>,
      <<"xhArr;", <<"U+10234">> >>, <<"xharr;", <<"U+10231">> >>,
      <<"xi;", <<"U+958">> >>, <<"xlArr;", <<"U+10232">> >>,
      <<"xlarr;", <<"U+10229">> >>, <<"xmap;", <<"U+10236">> >>,
      <<"xnis;", <<"U+8955">> >>, <<"xodot;", <<"U+10752">> >>,
      <<"xopf;", <<"U+120169">> >>, <<"xoplus;", <<"U+10753">> >>,
      <<"xotime;", <<"U+10754">> >>, <<"xrArr;", <<"U+10233">> >>,
      <<"xrarr;", <<"U+10230">> >>, <<"xscr;", <<"U+120013">> >>,
      <<"xsqcup;", <<"U+10758">> >>, <<"xuplus;", <<"U+10756">> >>,
      <<"xutri;", <<"U+9651">> >>, <<"xvee;", <<"U+8897">> >>,
      <<"xwedge;", <<"U+8896">> >>, <<"yacute", <<"U+253">> >>,
      <<"yacute;", <<"U+253">> >>, <<"yacy;", <<"U+1103">> >>,
      <<"ycirc;", <<"U+375">> >>, <<"ycy;", <<"U+1099">> >>,
      <<"yen", <<"U+165">> >>, <<"yen;", <<"U+165">> >>,
      <<"yfr;", <<"U+120118">> >>, <<"yicy;", <<"U+1111">> >>,
      <<"yopf;", <<"U+120170">> >>, <<"yscr;", <<"U+120014">> >>,
      <<"yucy;", <<"U+1102">> >>, <<"yuml", <<"U+255">> >>,
      <<"yuml;", <<"U+255">> >>, <<"zacute;", <<"U+378">> >>,
      <<"zcaron;", <<"U+382">> >>, <<"zcy;", <<"U+1079">> >>,
      <<"zdot;", <<"U+380">> >>, <<"zeetrf;", <<"U+8488">> >>,
      <<"zeta;", <<"U+950">> >>, <<"zfr;", <<"U+120119">> >>,
      <<"zhcy;", <<"U+1078">> >>, <<"zigrarr;", <<"U+8669">> >>,
      <<"zopf;", <<"U+120171">> >>, <<"zscr;", <<"U+120015">> >>,
      <<"zwj;", <<"U+8205">> >>, <<"zwnj;", <<"U+8204">> >> }

\* _replace_charref for a named reference: the name, or else its longest
\* beginning of two characters or more that is a name
NamedCharref(g) ==
    LET named(table) ==
            LET has(name) == \E q \in table : q[1] = name
                value(name) == (CHOOSE q \in table : q[1] = name)[2]
                xs == { x \in 2..(Len(g) - 1) : has(Str(Slice(g, 1, x))) }
                longest == CHOOSE y \in xs : \A z \in xs : z <= y
            IN  IF has(Str(g)) THEN value(Str(g))
                ELSE IF xs # {}
                     THEN value(Str(Slice(g, 1, longest))) \o Slice(g, longest + 1, Len(g))
                ELSE <<"&">> \o g
    IN  named(html5)

\* _replace_charref: g is the reference without its "&".  The result is
\* the text that replaces it, or raised for the ValueError of int()
replace_charref(g) ==
    LET body == IF g[Len(g)] = ";" THEN Slice(g, 1, Len(g) - 1) ELSE g
        numeric(num) == IF num = -1 THEN [raised |-> TRUE, text |-> <<>>]
                        ELSE [raised |-> FALSE, text |-> NumericCharref(num)]
    IN  IF g[1] = "#"
        THEN (IF g[2] \in {"x", "X"}
              THEN numeric(int(Slice(body, 3, Len(body)), 16))
              ELSE numeric(int(Slice(body, 2, Len(body)), 10)))
        ELSE [raised |-> FALSE, text |-> NamedCharref(g)]

\* where the match of _charref at the "&" of offset i ends, or -1:
\* &(#[0-9]+;?|#[xX][0-9a-fA-F]+;?|[^\t\n\f <&#;]{1,32};?)
CharrefEnd(s, i) ==
    LET d == RunTo(s, i + 2, LAMBDA j : s[j + 1] \in Digits)
        h == RunTo(s, i + 3, LAMBDA j : DigitValue(s[j + 1]) >= 0)
        r == RunTo(s, i + 1, LAMBDA j :
                     /\ s[j + 1] \notin {"\t", "\n", "\f", " ", "<", "&", "#", ";"}
                     /\ j < i + 33)
        semi(e) == IF CharAt(s, e) = ";" THEN e + 1 ELSE e
    IN  IF CharAt(s, i + 1) = "#"
        THEN (IF d > i + 2 THEN semi(d)
              ELSE IF CharAt(s, i + 2) \in {"x", "X"} /\ h > i + 3 THEN semi(h)
              ELSE -1)
        ELSE IF r > i + 1 THEN semi(r)
        ELSE -1

\* _charref.sub(_replace_charref, s), from the 0-based i: the text, or
\* raised when a replacement raises
RECURSIVE UnescapeFrom(_, _)
UnescapeFrom(s, i) ==
    LET plain(t) == [raised |-> FALSE, text |-> t]
        then(r, rest) == IF r.raised \/ rest.raised
                         THEN [raised |-> TRUE, text |-> <<>>]
                         ELSE [raised |-> FALSE, text |-> r.text \o rest.text]
        ref(a, e) ==
            IF e = -1 THEN then(plain(Cut(s, i, a + 1)), UnescapeFrom(s, a + 1))
            ELSE then(then(plain(Cut(s, i, a)), replace_charref(Cut(s, a + 1, e))),
                      UnescapeFrom(s, e))
        at(a) == IF a = -1 THEN plain(Cut(s, i, Len(s))) ELSE ref(a, CharrefEnd(s, a))
    IN  at(FindFrom(s, <<"&">>, i))

\* html.unescape(s)
unescape(s) == UnescapeFrom(s, 0)

-----------------------------------------------------------------------------
(* HTMLParser.feed, as ChaosHTMLSafetyParser inherits it: goahead and the  *)
(* parse_ methods it calls, with their regular expressions.  Offsets are   *)
(* 0-based, as in the source.  Only start tags reach the scanner, so the   *)
(* result is the list of (tag, attrs) events and the exception the parser  *)
(* raised, if any: the AssertionError of a marked section it does not      *)
(* know, or the ValueError of unescape.  What is unfinished at the end of  *)
(* the text stays buffered and gives no event.                             *)

CDATA_CONTENT_ELEMENTS == {<<"s","c","r","i","p","t">>, <<"s","t","y","l","e">>}

Quotes == {"'", "\""}

\* \s*
WsRun(s, i) == RunTo(s, i, LAMBDA j : IsSpace(s[j + 1]))

\* (?:\s|/(?!>))*
SkipWsSlash(s, i) ==
    RunTo(s, i, LAMBDA j : IsSpace(s[j + 1])
                           \/ (s[j + 1] = "/" /\ CharAt(s, j + 1) # ">"))

\* [^\t\n\r\f />\x00]*
TagNameEnd(s, i) ==
    RunTo(s, i, LAMBDA j : s[j + 1] \notin {"\t", "\n", "\r", "\f", " ", "/", ">", "U+0"})

\* [^>\s]*
BareValueEnd(s, i) == RunTo(s, i, LAMBDA j : ~IsSpace(s[j + 1]) /\ s[j + 1] # ">")

\* \s*=+\s*('[^']*'|"[^"]*"|(?!['"])[^>\s]*) at ne: whether it matches, and
\* the value's span.  Before a quote that is never closed the expression
\* gives back what it took: a space before the quote leaves an empty value,
\* a second "=" becomes the start of a bare value, and otherwise there is
\* no match
ValueMatch(s, ne) ==
    LET e1 == WsRun(s, ne)
        e2 == RunTo(s, e1, LAMBDA j : s[j + 1] = "=")
        e3 == WsRun(s, e2)
        q  == CharAt(s, e3)
        close == IF q \in Quotes THEN FindFrom(s, <<q>>, e3 + 1) ELSE -1
    IN  IF e2 = e1 THEN [ok |-> FALSE, from |-> ne, to |-> ne]
        ELSE IF q \notin Quotes THEN [ok |-> TRUE, from |-> e3, to |-> BareValueEnd(s, e3)]
        ELSE IF close # -1 THEN [ok |-> TRUE, from |-> e3, to |-> close + 1]
        ELSE IF e3 > e2 THEN [ok |-> TRUE, from |-> e3 - 1, to |-> e3 - 1]
        ELSE IF e2 - e1 >= 2
             THEN [ok |-> TRUE, from |-> e2 - 1, to |-> BareValueEnd(s, e2 - 1)]
        ELSE [ok |-> FALSE, from |-> ne, to |-> ne]

\* attrfind_tolerant.match(rawdata, k): whether it matches, its groups 1 and
\* 3, whether group 2 took part, and where the match ends.  The name is
\* [^\s/>][^\s/=>]* after ((?<=['"\s/])
attrfind_tolerant(s, k) ==
    LET before == CharAt(s, k - 1)
        c  == CharAt(s, k)
        match(ne, v) ==
            [ok    |-> /\ (before \in Quotes \/ before = "/" \/ IsSpace(before))
                       /\ c # "" /\ ~IsSpace(c) /\ c \notin {"/", ">"},
             name  |-> Cut(s, k, ne),
             rest  |-> v.ok,
             value |-> Cut(s, v.from, v.to),
             end   |-> SkipWsSlash(s, IF v.ok THEN v.to ELSE ne)]
        named(ne) == match(ne, ValueMatch(s, ne))
    IN  named(RunTo(s, k + 1, LAMBDA j : ~IsSpace(s[j + 1]) /\ s[j + 1] \notin {"/", "=", ">"}))

\* where the attributes that locatestarttagend_tolerant matches one after
\* another end
RECURSIVE AttrsEnd(_, _)
AttrsEnd(s, k) ==
    LET after(m) == IF m.ok THEN AttrsEnd(s, m.end) ELSE k
    IN  after(attrfind_tolerant(s, k))

\* locatestarttagend_tolerant.match(rawdata, i).end(), i being at "<" + letter:
\* the tag name, [\s/]*, the attributes, \s*
locatestarttagend_tolerant(s, i) ==
    LET te == TagNameEnd(s, i + 2)
        ws == RunTo(s, te, LAMBDA j : IsSpace(s[j + 1]) \/ s[j + 1] = "/")
    IN  WsRun(s, AttrsEnd(s, ws))

check_for_whole_start_tag(s, i) ==
    LET whole(j) ==
            LET next == CharAt(s, j)
            IN  IF next = ">" THEN j + 1
                ELSE IF next = "/" THEN (IF CharAt(s, j + 1) = ">" THEN j + 2 ELSE -1)
                ELSE IF next = "" THEN -1
                ELSE IF IsLetter(next) \/ next \in {"=", "/"} THEN -1
                ELSE IF j > i THEN j
                ELSE i + 1
    IN  whole(locatestarttagend_tolerant(s, i))

\* the (name, value) pair parse_starttag appends for a match, or raised
\* when unescape raises on the value
AttrOf(m) ==
    LET quoted == /\ m.value # <<>>
                  /\ m.value[1] \in Quotes
                  /\ m.value[1] = m.value[Len(m.value)]
        raw == IF quoted THEN Slice(m.value, 2, Len(m.value) - 1) ELSE m.value
        pair(u) == [raised |-> u.raised,
                    attr |-> [k |-> Lower(m.name), hasValue |-> m.rest, v |-> u.text]]
    IN  pair(IF m.rest THEN unescape(raw) ELSE [raised |-> FALSE, text |-> <<>>])

\* the while loop of parse_starttag: the attributes, the offset it ends
\* at, and whether unescape raised on a value
RECURSIVE AttrsFrom(_, _, _)
AttrsFrom(s, k, endpos) ==
    LET more(a, r) == [attrs |-> <<a.attr>> \o r.attrs, k |-> r.k, raised |-> r.raised]
        next(m, a) == IF a.raised THEN [attrs |-> <<>>, k |-> k, raised |-> TRUE]
                      ELSE more(a, AttrsFrom(s, m.end, endpos))
        at(m) == IF k >= endpos \/ ~m.ok THEN [attrs |-> <<>>, k |-> k, raised |-> FALSE]
                 ELSE next(m, AttrOf(m))
    IN  at(attrfind_tolerant(s, k))

\* parse_starttag: the offset it returns (-1 for an unfinished tag, -3 for
\* the ValueError of unescape), the event, if any, and the element whose
\* content is CDATA from here on
parse_starttag(s, i) ==
    LET te == TagNameEnd(s, i + 2)
        ended(endpos, name, attrs, end) ==
            IF end \notin {<<">">>, <<"/", ">">>}
            THEN [k |-> endpos, events |-> <<>>, cdata |-> <<>>]
            ELSE [k |-> endpos,
                  events |-> <<[tag |-> name, attrs |-> attrs]>>,
                  cdata |-> IF end = <<">">> /\ name \in CDATA_CONTENT_ELEMENTS
                            THEN name ELSE <<>>]
        read(endpos, r) ==
            IF r.raised THEN [k |-> -3, events |-> <<>>, cdata |-> <<>>]
            ELSE ended(endpos, Lower(Cut(s, i + 1, te)), r.attrs, Strip(Cut(s, r.k, endpos)))
        whole(endpos) ==
            IF endpos < 0 THEN [k |-> -1, events |-> <<>>, cdata |-> <<>>]
            ELSE read(endpos, AttrsFrom(s, SkipWsSlash(s, te), endpos))
    IN  whole(check_for_whole_start_tag(s, i))

\* the offset after the first ">" at or after i, or -1
AfterGt(s, i) == IF FindFrom(s, <<">">>, i) = -1 THEN -1 ELSE FindFrom(s, <<">">>, i) + 1

\* the end of the first match of a closing expression at or after i, or -1:
\* the expression is a literal, whitespace, and a last character
CloseEnd(s, i, first, last) ==
    LET hits == { p \in i..(Len(s) - 1) :
                    /\ Cut(s, p, p + Len(first)) = first
                    /\ CharAt(s, WsRun(s, p + Len(first))) = last }
    IN  IF hits = {} THEN -1 ELSE WsRun(s, Lowest(hits) + Len(first)) + 1

\* _markedsectionclose, ]\s*]\s*>
markedsectionclose(s, i) ==
    LET hits == { p \in i..(Len(s) - 1) :
                    /\ s[p + 1] = "]"
                    /\ CharAt(s, WsRun(s, p + 1)) = "]"
                    /\ CharAt(s, WsRun(s, WsRun(s, p + 1) + 1)) = ">" }
    IN  IF hits = {} THEN -1
        ELSE WsRun(s, WsRun(s, Lowest(hits) + 1) + 1) + 1

\* self.interesting.search(rawdata, i) in CDATA mode: where the first match
\* of </\s*elem\s*> at or after i starts and ends, or -1.  The expression
\* ignores case, so that a letter of elem is matched in either case, and
\* "s", "i" and "k" by the characters outside ASCII that have them as
\* their other case: the long s, the dotted capital I and the dotless i,
\* the Kelvin sign
interesting(s, i, elem) ==
    LET same(c, l) ==
            \/ c = l
            \/ IsUpper(c) /\ LowerChar(c) = <<l>>
            \/ l = "s" /\ c = "U+383"
            \/ l = "i" /\ c \in {"U+304", "U+305"}
            \/ l = "k" /\ c = "U+8490"
        nameAt(p) == WsRun(s, p + 2)
        named(a) == /\ a + Len(elem) <= Len(s)
                    /\ \A x \in 1..Len(elem) : same(s[a + x], elem[x])
        hits == { p \in i..(Len(s) - 1) :
                    /\ Cut(s, p, p + 2) = <<"<", "/">>
                    /\ named(nameAt(p))
                    /\ CharAt(s, WsRun(s, nameAt(p) + Len(elem))) = ">" }
        found(p) == [start |-> p, end |-> WsRun(s, nameAt(p) + Len(elem)) + 1]
    IN  IF hits = {} THEN [start |-> -1, end |-> -1] ELSE found(Lowest(hits))

\* parse_endtag at the "</" of offset i, cdata being self.cdata_elem: the
\* offset it returns (-1 without a ">") and the cdata_elem it leaves.
\* endtagfind is </\s*([a-zA-Z][-.a-zA-Z0-9:_]*)\s*>.  Where it does not
\* match outside CDATA mode, each of the three ways the method goes on ends
\* after the first ">", as the others do: the name and what
\* tagfind_tolerant skips after it hold no ">"
parse_endtag(s, i, cdata) ==
    LET gtpos == AfterGt(s, i + 1)
        ns    == WsRun(s, i + 2)
        ne    == RunTo(s, ns + 1, LAMBDA j : IsLetter(s[j + 1]) \/ s[j + 1] \in Digits
                                             \/ s[j + 1] \in {"-", ".", ":", "_"})
        match == IsLetter(CharAt(s, ns)) /\ CharAt(s, WsRun(s, ne)) = ">"
        elem  == Lower(Cut(s, ns, ne))
    IN  IF gtpos = -1 THEN [k |-> -1, events |-> <<>>, cdata |-> cdata]
        ELSE IF match /\ (cdata = <<>> \/ elem = cdata)
             THEN [k |-> gtpos, events |-> <<>>, cdata |-> <<>>]
        ELSE [k |-> gtpos, events |-> <<>>, cdata |-> cdata]

\* parse_marked_section, with the _scan_name it starts with (a letter and
\* [-_.a-zA-Z0-9]*): the offset after the section, -1 when it is unfinished,
\* -2 for an AssertionError.  A section of the second kind is closed by
\* _msmarkedsectionclose, ]\s*>
parse_marked_section(s, i) ==
    LET ne   == RunTo(s, i + 4, LAMBDA j : IsLetter(s[j + 1]) \/ s[j + 1] \in Digits
                                         \/ s[j + 1] \in {"-", "_", "."})
        j    == WsRun(s, ne)
        sectName == Lower(Cut(s, i + 3, ne))
    IN  IF i + 3 = Len(s) THEN -1
        ELSE IF ~IsLetter(CharAt(s, i + 3)) THEN -2
        ELSE IF j = Len(s) THEN -1
        ELSE IF sectName \in {<<"t","e","m","p">>, <<"c","d","a","t","a">>,
                              <<"i","g","n","o","r","e">>,
                              <<"i","n","c","l","u","d","e">>,
                              <<"r","c","d","a","t","a">>}
             THEN markedsectionclose(s, i + 3)
        ELSE IF sectName \in {<<"i","f">>, <<"e","l","s","e">>, <<"e","n","d","i","f">>}
             THEN CloseEnd(s, i + 3, <<"]">>, ">")
        ELSE -2

\* parse_html_declaration, for text that starts with "<!" and not "<!--"
parse_html_declaration(s, i) ==
    IF Cut(s, i, i + 3) = <<"<", "!", "[">> THEN parse_marked_section(s, i)
    ELSE IF Lower(Cut(s, i, i + 9)) = <<"<","!","d","o","c","t","y","p","e">> THEN AfterGt(s, i + 9)
    ELSE AfterGt(s, i + 2)

\* what goahead does at the "<" of offset i, cdata being self.cdata_elem:
\* the offset to go on from (-1 to stop, -2 for an AssertionError, -3 for a
\* ValueError), the event and the cdata_elem it leaves.  _commentclose is
\* --\s*>
Markup(s, i, cdata) ==
    LET none(k) == [k |-> k, events |-> <<>>, cdata |-> cdata]
    IN  IF IsLetter(CharAt(s, i + 1)) THEN parse_starttag(s, i)
        ELSE IF CharAt(s, i + 1) = "/" THEN parse_endtag(s, i, cdata)
        ELSE IF Cut(s, i, i + 4) = <<"<", "!", "-", "-">>
             THEN none(CloseEnd(s, i + 4, <<"-", "-">>, ">"))
        ELSE IF CharAt(s, i + 1) = "?" THEN none(AfterGt(s, i + 2))
        ELSE IF CharAt(s, i + 1) = "!" THEN none(parse_html_declaration(s, i))
        ELSE IF i + 1 < Len(s) THEN none(i + 1)
        ELSE none(-1)

\* goahead(0): the loop, from offset i, cdata being self.cdata_elem
\* (the empty text for None).  Outside CDATA mode the text before the next
\* "<" is unescaped, and so is the rest of a text without one, unless an
\* "&" among its last 34 characters has no whitespace or ";" after it; in
\* CDATA mode the loop goes on at the end tag self.interesting finds
RECURSIVE goahead(_, _, _)
goahead(s, i, cdata) ==
    LET done == [events |-> <<>>, raised |-> ""]
        raise(e) == [events |-> <<>>, raised |-> e]
        then(m, rest) == [events |-> m.events \o rest.events, raised |-> rest.raised]
        on(m) == IF m.k = -2 THEN raise("AssertionError")
                 ELSE IF m.k = -3 THEN raise("ValueError")
                 ELSE IF m.k = -1 THEN done
                 ELSE then(m, goahead(s, m.k, m.cdata))
        amps == { q \in i..(Len(s) - 1) : q >= Len(s) - 34 /\ s[q + 1] = "&" }
        waits(amppos) == ~\E q \in amppos..(Len(s) - 1) : IsSpace(s[q + 1]) \/ s[q + 1] = ";"
        \* the text handle_data gets unescaped before offset j is looked at
        data(j) == IF cdata # <<>> THEN <<>>
                   ELSE IF j # -1 THEN Cut(s, i, j)
                   ELSE IF amps # {} /\ waits(CHOOSE q \in amps : \A r \in amps : r <= q)
                        THEN <<>>
                   ELSE Cut(s, i, Len(s))
        at(j, text) == IF text.raised THEN raise("ValueError")
                       ELSE IF j = -1 THEN done
                       ELSE on(Markup(s, j, cdata))
        to(j) == at(j, unescape(data(j)))
    IN  IF i >= Len(s) THEN done
        ELSE to(IF cdata # <<>> THEN interesting(s, i, cdata).start
                ELSE FindFrom(s, <<"<">>, i))

\* parser.feed(data) on a new parser
feed(data) == goahead(data, 0, <<>>)

RECURSIVE EventErrors(_)
EventErrors(events) ==
    IF events = <<>> THEN <<>>
    ELSE handle_starttag(Head(events).tag, Head(events).attrs)
         \o EventErrors(Tail(events))

\* parser = ChaosHTMLSafetyParser(); parser.feed(region); parser.errors
ScanRegion(region) == EventErrors(feed(region).events)

-----------------------------------------------------------------------------
(* validate and its collaborators.                                         *)

M_allowed == "Only these files may change: "

M_illegal == "Illegal changed files: "

M_malformed == "Missing or misordered chaos markers"

M_outside == "index.html may only change content between CHAOS_START/CHAOS_END markers"

\* what a text-mode read makes of the line ends: "\r\n" and "\r" become "\n"
RECURSIVE UniversalNewlines(_)
UniversalNewlines(s) ==
    LET from(r) == IF r = -1 THEN s
                   ELSE UpTo(s, r) \o <<"\n">>
                        \o UniversalNewlines(From(s, IF r + 1 < Len(s) /\ s[r + 2] = "\n"
                                                      THEN r + 2 ELSE r + 1))
    IN  from(Find(s, <<"\r">>))

\* run(): check_output(..., text=True).strip(), of what the command printed
run(output) == Strip(UniversalNewlines(output))

\* read_file_at_ref: git show's output, through run()
read_file_at_ref(stored) == run(stored)

\* read_worktree: f.read() of a file opened in text mode
read_worktree(stored) == UniversalNewlines(stored)

\* sorted(ALLOWED_CHANGED_FILES)
SortedAllowed == <<CHAOS_CSS, INDEX_HTML>>

\* [f for f in files if f not in ALLOWED_CHANGED_FILES]
RECURSIVE Illegal(_)
Illegal(fs) ==
    IF fs = <<>> THEN <<>>
    ELSE (IF Head(fs) \notin ALLOWED_CHANGED_FILES THEN <<Head(fs)>> ELSE <<>>)
         \o Illegal(Tail(fs))

\* lines 167-170
AllowListErrors(fs) ==
    IF Illegal(fs) # <<>>
    THEN <<Msg(M_allowed, JoinNames(SortedAllowed)),
           Msg(M_illegal, JoinNames(Illegal(fs)))>>
    ELSE <<>>

\* the slip of going on to compare the documents after a failed split
HtmlErrorsNoSkip(base_html, head_html) ==
    LET b == split_chaos_region(base_html)
        h == split_chaos_region(head_html)
    IN  (IF b.raised \/ h.raised THEN <<Msg(M_malformed, <<>>)>> ELSE <<>>)
        \o (IF b.before # h.before \/ b.after # h.after
            THEN <<Msg(M_outside, <<>>)>> ELSE <<>>)
        \o ScanRegion(h.region)

\* lines 176-187: the try, its except and its else
HtmlErrors(base_html, head_html) ==
    LET b == split_chaos_region(base_html)
        h == split_chaos_region(head_html)
    IN  IF b.raised \/ h.raised
        THEN <<Msg(M_malformed, <<>>)>>
        ELSE (IF b.before # h.before \/ b.after # h.after
              THEN <<Msg(M_outside, <<>>)>> ELSE <<>>)
             \o ScanRegion(h.region)

\* whether parser.feed(head_region), line 186, raises, an AssertionError or
\* a ValueError: validate does not catch it
FeedRaises(fs, base_stored, head_stored) ==
    /\ INDEX_HTML \in Range(fs)
    /\ ~split_chaos_region(read_file_at_ref(base_stored)).raised
    /\ ~split_chaos_region(read_worktree(head_stored)).raised
    /\ feed(split_chaos_region(read_worktree(head_stored)).region).raised # ""

\* validate's errs, from what its collaborators returned
ValidateErrors(fs, base_stored, head_stored, css_stored) ==
    AllowListErrors(fs)
    \o (IF INDEX_HTML \in Range(fs)
        THEN HtmlErrors(read_file_at_ref(base_stored), read_worktree(head_stored))
        ELSE <<>>)
    \o (IF CHAOS_CSS \in Range(fs)
        THEN validate_css_scoping(read_worktree(css_stored))
        ELSE <<>>)


-----------------------------------------------------------------------------
(* The repository and one run of main().                                   *)
(* origin holds the base branch, whose index.html at the tip is tipHtml,   *)
(* and the pull request's branch once it is pushed (originPr; a push also  *)
(* writes the clone's refs/remotes/origin/pr).  The clone was made when    *)
(* the base branch was at the commit the pull request starts from: mbHtml  *)
(* is index.html there, and trackHtml is index.html at the clone's         *)
(* refs/remotes/origin/main, which only a fetch of main moves; origin/HEAD *)
(* is the clone's symbolic ref to it.  HEAD is the pull request's last     *)
(* commit, on its branch or detached, and the working tree is HEAD's tree. *)
(* The run is a sequence of steps, one for each git subprocess and each    *)
(* file read; pc names the call the run is about to make, and commits and  *)
(* pushes happen between the steps.                                        *)

VARIABLES mbHtml, tipHtml, trackHtml, headHtml, headCss, otherChanged,
          originPr, envBaseRef, detached, history,
          pc, base_ref, merge_base, files, base_stored, head_stored,
          css_stored, result, failures, output,
          docText, docPieces, splitResult, splitDone,
          cssText, cssPieces, cssErrors, cssChecked,
          tag, attrs, errors, fed

repoVars == <<mbHtml, tipHtml, trackHtml, headHtml, headCss, otherChanged,
              originPr, envBaseRef, detached, history>>

runVars == <<pc, base_ref, merge_base, files, base_stored, head_stored,
             css_stored, result, failures, output>>

splitVars == <<docText, docPieces, splitResult, splitDone>>

cssVars == <<cssText, cssPieces, cssErrors, cssChecked>>

tagVars == <<tag, attrs, errors, fed>>

vars == <<repoVars, runVars, splitVars, cssVars, tagVars>>

Doc(pre, mid, post) == pre \o CHAOS_START \o mid \o CHAOS_END \o post

D_img == <<"<","i","m","g",">">>

\* index.html as the commit the pull request starts from may hold it
MergeBaseDocs ==
    { Doc(<<"A">>, <<"x">>, <<"B">>),
      Doc(<<"A">>, <<"x">>, <<"B", "\n">>),
      <<"A", "x">> \o CHAOS_END \o <<"B">> }

\* what a commit on the base branch may make of it
TipDocs ==
    { Doc(<<"A">>, <<"x">>, <<"B">>),
      Doc(<<"C">>, <<"x">>, <<"B">>),
      Doc(<<"A">>, <<"x">>, <<"B", "\n">>),
      <<"A">> \o CHAOS_END \o <<"x">> \o CHAOS_START \o <<"B">> }

\* what a commit of the pull request may make of it; "<![>" is a marked
\* section with no keyword, at which the parser raises its AssertionError,
\* and unescape raises the ValueError of int() on a decimal character
\* reference of one digit more than int() converts
HeadDocs ==
    LET long == <<"&", "#">> \o [i \in 1..(int_max_str_digits + 1) |-> "1"] \o <<";">>
    IN
    { Doc(<<"A">>, <<"x">>, <<"B">>),
      Doc(<<"A">>, <<"y">>, <<"B">>),
      Doc(<<"A">>, <<"y">>, <<"B", "\n">>),
      Doc(<<"A">>, <<"y">>, <<"B", "\r", "\n">>),
      Doc(<<"A">>, D_img, <<"B">>),
      Doc(<<"A">>, <<"<","!","[",">">>, <<"B">>),
      Doc(<<"A">>, <<"<","a"," ","h","r","e","f","=","\"","#">> \o long \o <<"\"",">">>, <<"B">>),
      Doc(<<"C">>, <<"y">>, <<"B">>),
      <<"A">> \o CHAOS_START \o <<"x", "B">> }

\* chaos.css at the commit the pull request starts from
BaseCss == <<".","c","h","a","o","s","-","r","e","g","i","o","n","{","}">>

\* what a commit of the pull request may make of it
HeadCssTexts == { BaseCss, <<"d","i","v","{","}">>, <<".","c","h","a","o","s","-","r","e","g","i","o","n"," ",".","x","{","}">> }

OtherPaths == {"README.md", "tools/validate_chaos_pr.py"}

\* the branch the pull request is on, and the base branch
PR_BRANCH == "pr"

MAIN_BRANCH == "main"

NoResult == [returned |-> FALSE, ok |-> FALSE, errors |-> <<>>]

\* a commit's tree: the two files validate reads, and the other paths that
\* differ from the commit the pull request starts from
Tree(html, css, other) == [html |-> html, css |-> css, other |-> other]

NoTree == Tree(<<>>, <<>>, {})

\* HEAD's tree, which is the working tree
HeadTree == Tree(headHtml, headCss, otherChanged)

\* the tree of the commit the pull request starts from
ForkTree == Tree(mbHtml, BaseCss, {})

\* no branch of that name on origin
NoBranch == [exists |-> FALSE, html |-> <<>>, css |-> <<>>, other |-> {}]

\* whether origin has the branch git fetch origin <ref> asks for: the base
\* branch and HEAD always, the pull request's branch once pushed
OnOrigin(ref) == ref # PR_BRANCH \/ originPr.exists

\* the tree at the clone's origin/<ref>: the pushed commit for the pull
\* request's branch; for main, and for HEAD, which is the symbolic ref
\* origin/HEAD, the commit refs/remotes/origin/main is at, where only the
\* pull request's own files are told apart
RemoteTracking(ref) ==
    IF ref = PR_BRANCH THEN Tree(originPr.html, originPr.css, originPr.other)
    ELSE Tree(trackHtml, BaseCss, {})

\* the slip of reading the base document at the base branch's tip on origin
\* for every name, a detached HEAD included, whatever the clone has fetched
HtmlAtTip(ref) == IF ref = PR_BRANCH THEN originPr.html ELSE tipHtml

\* git show origin/<ref>:chaos-board/index.html, what it prints
HtmlAtRef(ref) == RemoteTracking(ref).html

\* git merge-base HEAD origin/<ref>, the tree of the commit it names: the
\* pushed commit, which HEAD descends from, for the pull request's own
\* branch; otherwise the commit the pull request starts from, which is HEAD
\* itself while the pull request has no commit of its own
MergeBaseTree(ref) == IF ref = PR_BRANCH THEN RemoteTracking(ref) ELSE ForkTree

\* git diff --name-only a..b: the names in git's path order
NameOnly(a, b) ==
    LET other == (a.other \ b.other) \cup (b.other \ a.other)
    IN  (IF "README.md" \in other THEN <<"README.md">> ELSE <<>>)
        \o (IF a.css # b.css THEN <<CHAOS_CSS>> ELSE <<>>)
        \o (IF a.html # b.html THEN <<INDEX_HTML>> ELSE <<>>)
        \o (IF "tools/validate_chaos_pr.py" \in other
            THEN <<"tools/validate_chaos_pr.py">> ELSE <<>>)

\* the parts of the state a specification does not use stay as they are here
IdleSplit ==
    /\ docText = <<>> /\ docPieces = 0 /\ splitDone = FALSE
    /\ splitResult = [raised |-> FALSE, before |-> <<>>, region |-> <<>>, after |-> <<>>]

IdleCss == cssText = <<>> /\ cssPieces = 0 /\ cssErrors = <<>> /\ cssChecked = FALSE

IdleTag == tag = <<>> /\ attrs = <<>> /\ errors = <<>> /\ fed = FALSE

IdleRun ==
    /\ pc = "start" /\ base_ref = "" /\ merge_base = NoTree /\ files = <<>>
    /\ base_stored = <<>> /\ head_stored = <<>> /\ css_stored = <<>>
    /\ result = NoResult /\ failures = {} /\ output = <<>>

IdleRepo ==
    /\ mbHtml = <<>> /\ tipHtml = <<>> /\ trackHtml = <<>>
    /\ headHtml = <<>> /\ headCss = <<>>
    /\ otherChanged = {} /\ originPr = NoBranch /\ envBaseRef = ""
    /\ detached = FALSE /\ history = 0

Init ==
    /\ mbHtml \in MergeBaseDocs
    /\ tipHtml = mbHtml
    /\ trackHtml = mbHtml
    /\ headHtml = mbHtml
    /\ headCss = BaseCss
    /\ otherChanged = {}
    /\ originPr = NoBranch
    /\ envBaseRef \in {"", MAIN_BRANCH}
    /\ detached \in BOOLEAN
    /\ history = 0
    /\ IdleRun
    /\ IdleSplit /\ IdleCss /\ IdleTag

\* the calls of a run that read the repository, in the order of the run
BeforeFetch == {"start", "fetch"}

BeforeDiff == BeforeFetch \cup {"merge-base", "diff"}

BeforeShow == BeforeDiff \cup {"show"}

BeforeOpenIndex == BeforeShow \cup {"open index.html"}

BeforeOpenCss == BeforeOpenIndex \cup {"open chaos.css"}

\* the commits and pushes of a history, counted in history
MaxHistory == 3

\* one more commit or push happens
Happens == history < MaxHistory /\ history' = history + 1

\* a commit lands on the base branch of origin; the run sees it if it has
\* yet to fetch
BaseCommit(d) ==
    /\ pc \in BeforeFetch /\ Happens
    /\ d # tipHtml
    /\ tipHtml' = d
    /\ UNCHANGED <<mbHtml, trackHtml, headHtml, headCss, otherChanged, originPr,
                   envBaseRef, detached>>
    /\ UNCHANGED <<runVars, splitVars, cssVars, tagVars>>

\* a commit of the pull request that changes index.html; the working tree
\* follows.  The run sees it if it has yet to open the file
PRCommitHtml(d) ==
    /\ pc \in BeforeOpenIndex /\ Happens
    /\ d # headHtml
    /\ headHtml' = d
    /\ UNCHANGED <<mbHtml, tipHtml, trackHtml, headCss, otherChanged, originPr,
                   envBaseRef, detached>>
    /\ UNCHANGED <<runVars, splitVars, cssVars, tagVars>>

PRCommitCss(c) ==
    /\ pc \in BeforeOpenCss /\ Happens
    /\ c # headCss
    /\ headCss' = c
    /\ UNCHANGED <<mbHtml, tipHtml, trackHtml, headHtml, otherChanged, originPr,
                   envBaseRef, detached>>
    /\ UNCHANGED <<runVars, splitVars, cssVars, tagVars>>

\* a commit of the pull request that changes another path; the run sees it
\* if it has yet to diff
PRCommitOther(p) ==
    /\ pc \in BeforeDiff /\ Happens
    /\ p \notin otherChanged
    /\ otherChanged' = otherChanged \cup {p}
    /\ UNCHANGED <<mbHtml, tipHtml, trackHtml, headHtml, headCss, originPr,
                   envBaseRef, detached>>
    /\ UNCHANGED <<runVars, splitVars, cssVars, tagVars>>

\* git push origin pr, on the pull request's branch: origin's branch and the
\* clone's refs/remotes/origin/pr are at HEAD.  The run sees it if it has
\* yet to read origin/pr
Push ==
    /\ pc \in BeforeShow /\ Happens
    /\ ~detached
    /\ originPr # [exists |-> TRUE, html |-> headHtml, css |-> headCss,
                   other |-> otherChanged]
    /\ originPr' = [exists |-> TRUE, html |-> headHtml, css |-> headCss,
                    other |-> otherChanged]
    /\ UNCHANGED <<mbHtml, tipHtml, trackHtml, headHtml, headCss, otherChanged,
                   envBaseRef, detached>>
    /\ UNCHANGED <<runVars, splitVars, cssVars, tagVars>>

\* main, line 198: get_base_ref().  revParseOk is whether
\* git rev-parse --abbrev-ref HEAD succeeds when it is called; on a detached
\* checkout it prints HEAD
get_base_ref(revParseOk) ==
    /\ pc = "start"
    /\ pc' = "fetch"
    /\ IF envBaseRef # ""
       THEN base_ref' = envBaseRef /\ failures' = failures
       ELSE IF revParseOk
       THEN base_ref' = (IF detached THEN "HEAD" ELSE PR_BRANCH)
            /\ failures' = failures
       ELSE base_ref' = "main" /\ failures' = failures \cup {"rev-parse"}
    /\ UNCHANGED <<merge_base, files, base_stored, head_stored, css_stored,
                   result, output>>
    /\ UNCHANGED <<repoVars, splitVars, cssVars, tagVars>>

CollaboratorCalls == {"fetch", "merge-base", "diff", "show", "open index.html", "open chaos.css"}

\* a collaborator call fails: check_output or open raises, nothing catches
\* it, and python ends the run with a traceback
Aborts(call) ==
    /\ pc' = "aborted"
    /\ failures' = failures \cup {call}
    /\ output' = <<"Traceback", "exit 1">>

\* line 194
Returns(errs) ==
    /\ pc' = "validated"
    /\ result' = [returned |-> TRUE, ok |-> Len(errs) = 0, errors |-> errs]

\* line 42: git fetch --no-tags --prune --depth=200 origin <base_ref>.  It
\* fails for a branch origin does not have, or for a reason of its own (ok);
\* a fetch of main moves refs/remotes/origin/main to the tip, while a fetch
\* of HEAD writes FETCH_HEAD only and a fetch of the pull request's branch
\* finds the clone's ref where the push left it
git_fetch(ok) ==
    /\ pc = "fetch"
    /\ IF ok /\ OnOrigin(base_ref)
       THEN /\ pc' = "merge-base"
            /\ trackHtml' = IF base_ref = MAIN_BRANCH THEN tipHtml ELSE trackHtml
            /\ UNCHANGED <<failures, output>>
       ELSE /\ Aborts("fetch")
            /\ UNCHANGED trackHtml
    /\ UNCHANGED <<base_ref, merge_base, files, base_stored, head_stored,
                   css_stored, result>>
    /\ UNCHANGED <<mbHtml, tipHtml, headHtml, headCss, otherChanged, originPr,
                   envBaseRef, detached, history>>
    /\ UNCHANGED <<splitVars, cssVars, tagVars>>

\* line 43: git merge-base HEAD origin/<base_ref>
git_merge_base(ok) ==
    /\ pc = "merge-base"
    /\ IF ok
       THEN /\ pc' = "diff"
            /\ merge_base' = MergeBaseTree(base_ref)
            /\ UNCHANGED <<failures, output>>
       ELSE /\ Aborts("merge-base")
            /\ UNCHANGED merge_base
    /\ UNCHANGED <<base_ref, files, base_stored, head_stored, css_stored, result>>
    /\ UNCHANGED <<repoVars, splitVars, cssVars, tagVars>>

\* lines 44-45: git diff --name-only <merge_base>..HEAD and the list of its
\* lines; then lines 167-173 and 190, up to the next read, or to the return
\* of line 194 when neither file is in the list
git_diff(ok) ==
    /\ pc = "diff"
    /\ IF ok
       THEN /\ files' = NameOnly(merge_base, HeadTree)
            /\ IF INDEX_HTML \in Range(files')
               THEN pc' = "show" /\ UNCHANGED result
               ELSE IF CHAOS_CSS \in Range(files')
               THEN pc' = "open chaos.css" /\ UNCHANGED result
               ELSE Returns(AllowListErrors(files'))
            /\ UNCHANGED <<failures, output>>
       ELSE /\ Aborts("diff")
            /\ UNCHANGED <<files, result>>
    /\ UNCHANGED <<base_ref, merge_base, base_stored, head_stored, css_stored>>
    /\ UNCHANGED <<repoVars, splitVars, cssVars, tagVars>>

\* line 174, the subprocess of read_file_at_ref: base_stored is what
\* git show origin/<base_ref>:chaos-board/index.html prints
git_show(ok) ==
    /\ pc = "show"
    /\ IF ok
       THEN /\ pc' = "open index.html"
            /\ base_stored' = HtmlAtRef(base_ref)
            /\ UNCHANGED <<failures, output>>
       ELSE /\ Aborts("show")
            /\ UNCHANGED base_stored
    /\ UNCHANGED <<base_ref, merge_base, files, head_stored, css_stored, result>>
    /\ UNCHANGED <<repoVars, splitVars, cssVars, tagVars>>

\* line 175, the read of the working tree's index.html (head_stored is the
\* file's content), then lines 176-190: the exception parser.feed raises is
\* not caught; the run goes on to chaos.css if it is in the list, and
\* returns otherwise
open_index_html(ok) ==
    /\ pc = "open index.html"
    /\ IF ok
       THEN /\ head_stored' = headHtml
            /\ IF FeedRaises(files, base_stored, headHtml)
               THEN /\ pc' = "aborted"
                    /\ output' = <<"Traceback", "exit 1">>
                    /\ UNCHANGED result
               ELSE IF CHAOS_CSS \in Range(files)
               THEN pc' = "open chaos.css" /\ UNCHANGED <<result, output>>
               ELSE Returns(ValidateErrors(files, base_stored, headHtml, <<>>))
                    /\ UNCHANGED output
            /\ UNCHANGED failures
       ELSE /\ Aborts("open index.html")
            /\ UNCHANGED <<head_stored, result>>
    /\ UNCHANGED <<base_ref, merge_base, files, base_stored, css_stored>>
    /\ UNCHANGED <<repoVars, splitVars, cssVars, tagVars>>

\* line 191, the read of the working tree's chaos.css, then lines 192-194
open_chaos_css(ok) ==
    /\ pc = "open chaos.css"
    /\ IF ok
       THEN /\ css_stored' = headCss
            /\ Returns(ValidateErrors(files, base_stored, head_stored, headCss))
            /\ UNCHANGED <<failures, output>>
       ELSE /\ Aborts("open chaos.css")
            /\ UNCHANGED <<css_stored, result>>
    /\ UNCHANGED <<base_ref, merge_base, files, base_stored, head_stored>>
    /\ UNCHANGED <<repoVars, splitVars, cssVars, tagVars>>

\* main, lines 200-207
main_report ==
    /\ pc = "validated"
    /\ pc' = "reported"
    /\ output' = IF result.ok
                 THEN <<"Chaos PR validation: OK", "exit 0">>
                 ELSE <<"Chaos PR validation: FAILED">>
                      \o [i \in 1..Len(result.errors) |-> result.errors[i].text]
                      \o <<"exit 2">>
    /\ UNCHANGED <<base_ref, merge_base, files, base_stored, head_stored,
                   css_stored, result, failures>>
    /\ UNCHANGED <<repoVars, splitVars, cssVars, tagVars>>

Next ==
    \/ \E d \in TipDocs : BaseCommit(d)
    \/ \E d \in HeadDocs : PRCommitHtml(d)
    \/ \E c \in HeadCssTexts : PRCommitCss(c)
    \/ \E p \in OtherPaths : PRCommitOther(p)
    \/ Push
    \/ \E revParseOk \in BOOLEAN : get_base_ref(revParseOk)
    \/ \E ok \in BOOLEAN : git_fetch(ok)
    \/ \E ok \in BOOLEAN : git_merge_base(ok)
    \/ \E ok \in BOOLEAN : git_diff(ok)
    \/ \E ok \in BOOLEAN : git_show(ok)
    \/ \E ok \in BOOLEAN : open_index_html(ok)
    \/ \E ok \in BOOLEAN : open_chaos_css(ok)
    \/ main_report

Spec == Init /\ [][Next]_vars

-----------------------------------------------------------------------------
(* split_chaos_region on its own: a document is put together from pieces   *)
(* and then split.                                                         *)

MaxDocPieces == 5

DocPieces == { CHAOS_START, CHAOS_END, <<"x">>, <<"\n">>,
               <<"<","!","-","-"," ","C","H","A","O","S","_">> }

InitSplit ==
    /\ IdleSplit
    /\ IdleRepo /\ IdleRun
    /\ IdleCss
    /\ IdleTag

\* the document grows by one piece; docPieces counts them
DocAppend(piece) ==
    /\ ~splitDone
    /\ docPieces < MaxDocPieces
    /\ docText' = docText \o piece
    /\ docPieces' = docPieces + 1
    /\ UNCHANGED <<splitResult, splitDone>>
    /\ UNCHANGED <<repoVars, runVars, cssVars, tagVars>>

Split ==
    /\ ~splitDone
    /\ splitResult' = split_chaos_region(docText)
    /\ splitDone' = TRUE
    /\ UNCHANGED <<docText, docPieces>>
    /\ UNCHANGED <<repoVars, runVars, cssVars, tagVars>>

NextSplit == (\E piece \in DocPieces : DocAppend(piece)) \/ Split

SpecSplit == InitSplit /\ [][NextSplit]_vars

-----------------------------------------------------------------------------
(* validate_css_scoping on its own: a style sheet is put together from     *)
(* pieces and then checked.                                                *)

MaxCssPieces == 4

CssPieces == { T_chaos_region_class, <<" ">>, <<"\f">>, <<"*">>, <<"d","i","v">>, <<"{">>, <<"}">>,
               <<",">>, <<"@","i","m","p","o","r","t"," ","x",";">>, <<">">>,
               T_body, <<"@","m","e","d","i","a"," ","x">>,
               <<"/", "*">>, <<"*", "/">>, <<"\"">> }

InitCss ==
    /\ IdleCss
    /\ IdleRepo /\ IdleRun
    /\ IdleSplit
    /\ IdleTag

CssAppend(piece) ==
    /\ ~cssChecked
    /\ cssPieces < MaxCssPieces
    /\ cssText' = cssText \o piece
    /\ cssPieces' = cssPieces + 1
    /\ UNCHANGED <<cssErrors, cssChecked>>
    /\ UNCHANGED <<repoVars, runVars, splitVars, tagVars>>

CssCheck ==
    /\ ~cssChecked
    /\ cssErrors' = validate_css_scoping(cssText)
    /\ cssChecked' = TRUE
    /\ UNCHANGED <<cssText, cssPieces>>
    /\ UNCHANGED <<repoVars, runVars, splitVars, tagVars>>

NextCss == (\E piece \in CssPieces : CssAppend(piece)) \/ CssCheck

SpecCss == InitCss /\ [][NextCss]_vars

-----------------------------------------------------------------------------
(* The scanner on its own: a start tag and its attributes, as the          *)
(* tokenizer hands them to handle_starttag, on a new parser.               *)

MaxAttrs == 3

TagNames == { T_a, T_img }

AttrPool ==
    { [k |-> <<"h","r","e","f">>, hasValue |-> TRUE, v |-> <<"h","t","t","p","s",":","/","/","x">>],
      [k |-> <<"h","r","e","f">>, hasValue |-> TRUE, v |-> <<"\r","H","T","T","P",":","/","/","X"," ">>],
      [k |-> <<"h","r","e","f">>, hasValue |-> TRUE, v |-> <<"H","T","T","P","S",":","/","/","U+201","U+931">>],
      [k |-> <<"h","r","e","f">>, hasValue |-> TRUE, v |-> <<"#","f">>],
      [k |-> <<"h","r","e","f">>, hasValue |-> TRUE, v |-> <<"j","a","v","a","s","c","r","i","p","t",":","x">>],
      [k |-> <<"h","r","e","f">>, hasValue |-> TRUE, v |-> <<>>],
      [k |-> <<"h","r","e","f">>, hasValue |-> FALSE, v |-> <<>>],
      [k |-> <<"h","r","e","f">>, hasValue |-> TRUE, v |-> <<" ">>],
      [k |-> <<"t","a","r","g","e","t">>, hasValue |-> TRUE, v |-> <<"_","b","l","a","n","k">>],
      [k |-> <<"t","a","r","g","e","t">>, hasValue |-> TRUE, v |-> <<"_","B","L","A","N","K">>],
      [k |-> <<"r","e","l">>, hasValue |-> TRUE, v |-> <<"N","o","F","o","l","l","o","w"," ","\f","n","o","o","p","e","n","e","r","\r","n","o","r","e","f","e","r","r","e","r">>],
      [k |-> <<"r","e","l">>, hasValue |-> TRUE, v |-> <<"n","o","f","o","l","l","o","w"," ","n","o","o","p","e","n","e","r">>],
      [k |-> <<"o","n","c","l","i","c","k">>, hasValue |-> TRUE, v |-> <<"x">>],
      [k |-> <<"a","l","t">>, hasValue |-> TRUE, v |-> <<"d">>],
      [k |-> <<"s","r","c">>, hasValue |-> TRUE, v |-> <<"h","t","t","p",":","/","/","x">>] }

InitTag ==
    /\ tag \in TagNames /\ attrs = <<>> /\ errors = <<>> /\ fed = FALSE
    /\ IdleRepo /\ IdleRun
    /\ IdleSplit
    /\ IdleCss

\* the tokenizer reads one more attribute of the tag
ReadAttr(at) ==
    /\ ~fed
    /\ Len(attrs) < MaxAttrs
    /\ attrs' = Append(attrs, at)
    /\ UNCHANGED <<tag, errors, fed>>
    /\ UNCHANGED <<repoVars, runVars, splitVars, cssVars>>

HandleStartTag ==
    /\ ~fed
    /\ errors' = errors \o handle_starttag(tag, attrs)
    /\ fed' = TRUE
    /\ UNCHANGED <<tag, attrs>>
    /\ UNCHANGED <<repoVars, runVars, splitVars, cssVars>>

NextTag == (\E at \in AttrPool : ReadAttr(at)) \/ HandleStartTag

SpecTag == InitTag /\ [][NextTag]_vars

-----------------------------------------------------------------------------
(* What the claims speak of, defined from the claims' words rather than    *)
(* from the operators above.                                               *)

\* the 0-based offsets at which marker occurs in d
Occurrences(d, marker) ==
    { i \in 0..(Len(d) - Len(marker)) : \A j \in 1..Len(marker) : d[i + j] = marker[j] }

Least(S) == CHOOSE x \in S : \A y \in S : x <= y

\* a marker is absent, or the first CHAOS_END is not after the first CHAOS_START
Malformed(d) ==
    \/ Occurrences(d, CHAOS_START) = {}
    \/ Occurrences(d, CHAOS_END) = {}
    \/ Least(Occurrences(d, CHAOS_END)) <= Least(Occurrences(d, CHAOS_START))

EndsWith(s, p) == Len(p) <= Len(s) /\ \A j \in 1..Len(p) : s[Len(s) - Len(p) + j] = p[j]

BeginsWith(s, p) == Len(p) <= Len(s) /\ \A j \in 1..Len(p) : s[j] = p[j]

Texts(errs) == { errs[i].text : i \in 1..Len(errs) }

ScannerTexts == { M_handler, M_javascript, M_scheme, M_target, M_rel, M_img_src, M_img_alt }

CssTexts == { M_prefix, M_bare }

Returned == pc \in {"validated", "reported"}

\* the run is over: validate has returned, or an exception has ended the run
Ended == pc \in {"validated", "reported", "aborted"}

\* the names a message lists, the separators left out
NamesIn(m) == Range(m.arg) \ {", "}

IllegalPaths == { f \in Range(files) : f \notin {"chaos-board/index.html",
                                                  "chaos-board/assets/chaos.css"} }

\* C1: for every change set changed_files returns, validate reports
\* allow-list violations exactly when the change set holds a path outside
\* the two allowed ones; then the result is a failure, the first two
\* messages, and no others, are the allowed set and the illegal files, and
\* the second names exactly the illegal paths.  Stated of every run that has
\* ended with no collaborator call failed, so that changed_files has
\* returned files and nothing but validate's own code stands between the
\* change set and the result.
C1_AllowList ==
    (Ended /\ failures \cap CollaboratorCalls = {}) =>
        LET errs == result.errors
            at   == { i \in 1..Len(errs) : errs[i].text \in {M_allowed, M_illegal} }
        IN  /\ (at # {}) <=> (IllegalPaths # {})
            /\ IllegalPaths # {} =>
                 /\ result.returned
                 /\ ~result.ok
                 /\ at = {1, 2}
                 /\ errs[1].text = M_allowed
                 /\ NamesIn(errs[1]) = ALLOWED_CHANGED_FILES
                 /\ errs[2].text = M_illegal
                 /\ NamesIn(errs[2]) = IllegalPaths

\* C2: with index.html changed and both documents splitting, the
\* outside-region violation is emitted exactly when the prefix or the suffix
\* of the current document differs from that of the base-revision document
\* as stored: base_stored is the blob git show printed, head_stored the
\* content of the working tree's file.
C2_RegionFidelity ==
    (Returned /\ INDEX_HTML \in Range(files)
     /\ ~Malformed(base_stored) /\ ~Malformed(head_stored)) =>
        LET b == split_chaos_region(base_stored)
            h == split_chaos_region(head_stored)
        IN  (M_outside \in Texts(result.errors))
            <=> (b.before # h.before \/ b.after # h.after)

\* index.html is in the change set and the run has read both documents
BothRead ==
    /\ INDEX_HTML \in Range(files)
    /\ pc \in {"open chaos.css", "validated", "reported", "aborted"}
    /\ failures \cap {"show", "open index.html"} = {}

\* C6: with index.html in the change set, a malformed base or current
\* document, as the run read them, gives exactly one malformed-region
\* violation, no outside-region violation and no scanner violation; the run
\* is not ended by it (it ends early only if a collaborator call fails), and
\* the CSS check still reports, on the style sheet as the run read it.
C6_MalformedNonFatal ==
    (BothRead /\ (Malformed(base_stored) \/ Malformed(head_stored))) =>
        /\ pc = "aborted" => failures \cap CollaboratorCalls # {}
        /\ Returned =>
             LET errs == result.errors
                 css  == IF CHAOS_CSS \in Range(files)
                         THEN validate_css_scoping(read_worktree(css_stored)) ELSE <<>>
             IN  /\ Cardinality({ i \in 1..Len(errs) : errs[i].text = M_malformed }) = 1
                 /\ M_outside \notin Texts(errs)
                 /\ Texts(errs) \cap ScannerTexts = {}
                 /\ Len(errs) >= Len(css)
                 /\ [i \in 1..Len(css) |-> errs[Len(errs) - Len(css) + i]] = css
                 /\ Cardinality({ i \in 1..Len(errs) : errs[i].text \in CssTexts }) = Len(css)

\* a current document without its end marker, and a style sheet with a violation
C6_Witness ==
    /\ pc = "validated"
    /\ {INDEX_HTML, CHAOS_CSS} \subseteq Range(files)
    /\ ~Malformed(base_stored)
    /\ Malformed(head_stored)
    /\ M_malformed \in Texts(result.errors)
    /\ M_prefix \in Texts(result.errors)

\* C7: whenever a collaborator call has failed, the run is aborted: no
\* result, no report, no substituted value.
C7_FatalAborts ==
    failures # {} =>
        /\ pc = "aborted"
        /\ ~result.returned
        /\ "Chaos PR validation: OK" \notin Range(output)

EdgeClean(d) == d = Strip(d)

\* the prefix or the suffix of document a is not that of document b
OutsideDiffers(a, b) ==
    LET starts(d) == Least(Occurrences(d, CHAOS_START)) + Len(CHAOS_START)
        ends(d)   == Least(Occurrences(d, CHAOS_END))
        prefix(d) == [i \in 1..starts(d) |-> d[i]]
        suffix(d) == [i \in 1..(Len(d) - ends(d)) |-> d[ends(d) + i]]
    IN  prefix(a) # prefix(b) \/ suffix(a) # suffix(b)

ComparedRevision ==
    IF base_ref = PR_BRANCH THEN originPr.html
    ELSE IF base_ref = MAIN_BRANCH THEN tipHtml
    ELSE trackHtml

C9_SplitRoundTrip ==
    splitDone =>
        /\ splitResult.raised <=> Malformed(docText)
        /\ ~splitResult.raised =>
             /\ splitResult.before \o splitResult.region \o splitResult.after = docText
             /\ EndsWith(splitResult.before, CHAOS_START)
             /\ BeginsWith(splitResult.after, CHAOS_END)
             /\ Least(Occurrences(docText, CHAOS_START))
                  < Least(Occurrences(docText, CHAOS_END))

\* a split with text before, between and after the markers
C9_Witness ==
    /\ splitDone /\ ~splitResult.raised
    /\ splitResult.region # <<>>
    /\ Len(splitResult.before) > Len(CHAOS_START)
    /\ Len(splitResult.after) > Len(CHAOS_END)

\* the tokens of a selector: what lies between whitespace and > + ~
ClaimTokens(sel) ==
    LET sep(i) == IsSpace(sel[i]) \/ sel[i] \in {">", "+", "~"}
    IN  { Slice(sel, q[1], q[2]) :
            q \in { r \in (1..Len(sel)) \X (1..Len(sel)) :
                      /\ r[1] <= r[2]
                      /\ \A i \in r[1]..r[2] : ~sep(i)
                      /\ (r[1] = 1 \/ sep(r[1] - 1))
                      /\ (r[2] = Len(sel) \/ sep(r[2] + 1)) } }

\* a token that names an element: it starts with a letter, and the name it
\* starts with is not chaos-region
ClaimBareTag(t) ==
    /\ IsLetter(t[1])
    /\ LET n == Least({ k \in 1..Len(t) : k = Len(t) \/ ~IsIdentChar(t[k + 1]) })
       IN  Slice(t, 1, n) # T_chaos_region

ClaimScoped(sel) ==
    /\ BeginsWith(sel, T_chaos_region_class)
    /\ \A t \in ClaimTokens(sel) :
          t \notin {T_star, T_html, T_body} /\ ~ClaimBareTag(t)

\* the selectors of the style rules of a text: for each "{", the text that
\* precedes it back to the nearest "{", "}" or ";", unless it is empty or an
\* at-rule's; split at the commas
StyleRuleSelectors(css) ==
    LET opens == { p \in 1..Len(css) : css[p] = "{" }
        from(p) == IF \E q \in 1..(p - 1) : css[q] \in {"{", "}", ";"}
                   THEN 1 + CHOOSE q \in 1..(p - 1) :
                              /\ css[q] \in {"{", "}", ";"}
                              /\ \A r \in (q + 1)..(p - 1) : css[r] \notin {"{", "}", ";"}
                   ELSE 1
        prelude(p) == Strip(Slice(css, from(p), p - 1))
        rules == { prelude(p) : p \in opens }
    IN  UNION { Range(StripNonEmpty(SplitChar(r, ","))) :
                  r \in { x \in rules : x # <<>> /\ x[1] # "@" } }

\* C3: if validate_css_scoping returns no violation, every selector of every
\* style rule of the text starts with .chaos-region and has no token that is
\* *, html, body or a bare tag name other than chaos-region; the rules that
\* follow an at-rule statement ending with ";" included.
C3_CssGateSound ==
    (cssChecked /\ cssErrors = <<>>) =>
        \A sel \in StyleRuleSelectors(Preprocess(cssText)) : ClaimScoped(sel)

\* C8 as claimed: every selector the checker looks at that has a token *,
\* html or body gets a bare-element violation; so does the rule "* { }".
C8_RootTokensAlwaysBare ==
    cssChecked =>
        \A sel \in Range(CheckedSelectors(cssText)) :
            (ClaimTokens(sel) \cap {T_star, T_html, T_body} # {})
            => Msg(M_bare, sel) \in Range(cssErrors)

\* C8 as amended: a selector the checker looks at that has a token *, html or
\* body gets a bare-element violation if it starts with .chaos-region, and
\* otherwise the must-start-with violation and no bare-element violation.
C8_RootTokensRejected ==
    cssChecked =>
        \A sel \in Range(CheckedSelectors(cssText)) :
            (ClaimTokens(sel) \cap {T_star, T_html, T_body} # {})
            => IF BeginsWith(sel, T_chaos_region_class)
               THEN Msg(M_bare, sel) \in Range(cssErrors)
               ELSE /\ Msg(M_prefix, sel) \in Range(cssErrors)
                    /\ Msg(M_bare, sel) \notin Range(cssErrors)

\* ".chaos-region *" checked and reported as a bare element selector
C8_Witness ==
    /\ cssChecked
    /\ \E sel \in Range(CheckedSelectors(cssText)) :
          /\ BeginsWith(sel, T_chaos_region_class)
          /\ T_star \in ClaimTokens(sel)
          /\ Msg(M_bare, sel) \in Range(cssErrors)

\* href, trimmed and lowercased, starts with p
HrefStarts(p) == BeginsWith(Lower(Strip(AttrGet(attrs, T_href))), p)

ClaimExternal == HrefStarts(T_http) \/ HrefStarts(T_https)

\* the rel value split at whitespace, each token lowercased
ClaimRelTokens == { Lower(t) : t \in Range(SplitWs(AttrGet(attrs, T_rel))) }

\* C4: for an <a> whose href is external, a target violation is emitted
\* unless target is exactly _blank, and a rel violation unless the rel tokens
\* include nofollow, noopener and noreferrer; neither depends on the other.
C4_ExternalLinks ==
    (fed /\ Lower(tag) = T_a /\ ClaimExternal) =>
        /\ (Msg(M_target, <<>>) \in Range(errors))
           <=> ~(AttrHas(attrs, T_target) /\ AttrValue(attrs, T_target) = T_blank)
        /\ (Msg(M_rel, <<>>) \in Range(errors))
           <=> ~({T_nofollow, T_noopener, T_noreferrer} \subseteq ClaimRelTokens)

\* an external link, trimmed and lowercased to one, with target="_blank" and
\* an incomplete rel: the rel violation alone
C4_Witness ==
    /\ fed /\ Lower(tag) = T_a /\ ClaimExternal
    /\ AttrGet(attrs, T_href) # Lower(Strip(AttrGet(attrs, T_href)))
    /\ AttrHas(attrs, T_target) /\ AttrValue(attrs, T_target) = T_blank
    /\ AttrHas(attrs, T_rel)
    /\ Msg(M_rel, <<>>) \in Range(errors)
    /\ Msg(M_target, <<>>) \notin Range(errors)

\* C5: for an <a> with an href attribute, whatever its value, a value that
\* does not start with http://, https:// or # gets the scheme violation, and
\* one that starts with javascript: gets the javascript: violation too.
C5_HrefScheme ==
    (fed /\ Lower(tag) = T_a /\ AttrHas(attrs, T_href)) =>
        /\ ~(HrefStarts(T_http) \/ HrefStarts(T_https) \/ HrefStarts(T_hash))
           => M_scheme \in Texts(errors)
        /\ HrefStarts(T_javascript) => M_javascript \in Texts(errors)

=============================================================================
